---- MODULE Spec2Model ----
(***************************************************************************)
(* The chain store of go-filecoin (chain/store.go): the block store, the   *)
(* per-tipset state records and the head key in the datastore, the tipset  *)
(* index, the in-memory head behind store.mu, and the new-head broadcaster.*)
(***************************************************************************)
EXTENDS Integers, Sequences, FiniteSets, TLC

\* ------------------------------------------------------------- bounds
\* PutTipSetAndState calls made.
MaxPut == 2
\* SetHead calls recorded in the head history.
MaxSetHead == 2
\* SetHead calls made while the subscriber does not drain its channel.
\* Largest height of the head tipset that Load's traversal starts from.
MaxHeight == 20

MaxCalls == 130

\* AddNewBlock calls made.
MaxAdd == 3

\* ---------------------------------------------------------- constants
\* cid.Undef, the zero CID.
Undef == 0
\* pubsub.New(128): the broadcaster's backlog.
Backlog == 128

\* ----------------------------------------------------------- universe
\* Blocks are named by their CID.  1 is the genesis block, 2 another
\* parentless block, 3 a child of 1, 4 a child of 2.
Cids == 1..4
Roots == 1..2
StateRoots == {Undef} \cup Roots
\* The calling threads and the subscribers of the new-head topic.
Threads == 1..2
Subs == {1}

\* Block.Parents: the CIDs of the block's parents.
BlockParents(c) == IF c <= 2 THEN {} ELSE {c - 2}

\* Block.Height.
BlockHeight(c) == IF c <= 2 THEN 0 ELSE 1

\* A tipset is named by its key, the set of its blocks' CIDs; {} is the
\* undefined tipset.  Its blocks share parents and height.
UndefTipSet == {}

IsTipSet(s) ==
    /\ s # {}
    /\ \A a, b \in s : BlockParents(a) = BlockParents(b) /\ BlockHeight(a) = BlockHeight(b)

TipSets == {s \in SUBSET Cids : IsTipSet(s)}

\* TipSet.Defined.
Defined(ts) == ts # {}

\* TipSet.Len.
Len_(ts) == Cardinality(ts)

\* TipSet.At(i), i from 1: the i-th block in the order of the CIDs.
RECURSIVE At(_, _)
At(ts, i) ==
    LET m == CHOOSE c \in ts : \A d \in ts : c <= d
    IN  IF i = 1 THEN m ELSE At(ts \ {m}, i - 1)

\* TipSet.Parents and TipSet.Height, of a defined tipset.
TsParents(ts) == BlockParents(At(ts, 1))
TsHeight(ts) == BlockHeight(At(ts, 1))

\* makeKey(ts.String(), h): the datastore key of a tipset's state record.
MakeKey(ts) == <<ts, TsHeight(ts)>>

\* ------------------------------------------------------- tipset index
EmptyMap == [x \in {} |-> 0]

NewTipIndex == [byKey |-> EmptyMap, byParentsHeight |-> EmptyMap]

TipIndexHas(ti, ts) == ts \in DOMAIN ti.byKey

\* TipIndex.Put: ok is FALSE on a conflicting state root.
TipIndexPut(ti, ts, root) ==
    IF TipIndexHas(ti, ts) /\ ti.byKey[ts] # root
    THEN [ok |-> FALSE, ti |-> ti]
    ELSE LET pk == <<TsParents(ts), TsHeight(ts)>>
             old == IF pk \in DOMAIN ti.byParentsHeight
                    THEN ti.byParentsHeight[pk] ELSE EmptyMap
         IN  [ok |-> TRUE,
              ti |-> [byKey |-> (ts :> root) @@ ti.byKey,
                      byParentsHeight |->
                          (pk :> ((ts :> root) @@ old)) @@ ti.byParentsHeight]]

TipIndexGetTipSetStateRoot(ti, ts) == ti.byKey[ts]

\* ------------------------------------------------- store, as functions
\* The part of a Store that PutTipSetAndState and Load's traversal work on.
StoreOf(bs, ti, ds) == [bsPriv |-> bs, tipIndex |-> ti, dsState |-> ds]

\* The blocks putBlk has written once the first n blocks of ts are put.
FirstBlocks(ts, n) == {At(ts, i) : i \in 1..n}

\* A writeTipSetAndState that returns nil without the datastore's Put.
WriteTipSetAndStateNoPut(ds, ts, root, ioFail) ==
    [err |-> root = Undef \/ ioFail, ds |-> ds]

\* A writeTipSetAndState that refuses to write a record that is there.
WriteTipSetAndStateOnce(ds, ts, root, ioFail) ==
    IF root = Undef \/ ioFail \/ MakeKey(ts) \in DOMAIN ds
    THEN [err |-> TRUE, ds |-> ds]
    ELSE [err |-> FALSE, ds |-> (MakeKey(ts) :> root) @@ ds]

\* writeTipSetAndState.  ioFail: the datastore's Put fails.
WriteTipSetAndState(ds, ts, root, ioFail) ==
    IF root = Undef THEN [err |-> TRUE, ds |-> ds]
    ELSE IF ioFail THEN [err |-> TRUE, ds |-> ds]
    ELSE [err |-> FALSE, ds |-> (MakeKey(ts) :> root) @@ ds]

\* A PutTipSetAndState that leaves out the update of the tipset index.
PutTipSetAndStateOpNoIndex(s, ts, root, fail) ==
    IF fail \in 1..Len_(ts)
    THEN [err |-> TRUE,
          s |-> [s EXCEPT !.bsPriv = @ \cup FirstBlocks(ts, fail - 1)]]
    ELSE LET w == WriteTipSetAndState(s.dsState, ts, root, fail = Len_(ts) + 1)
         IN  [err |-> w.err, s |-> StoreOf(s.bsPriv \cup ts, s.tipIndex, w.ds)]

\* A PutTipSetAndState that updates the tipset index before it persists the
\* blocks.
PutTipSetAndStateOpIndexFirst(s, ts, root, fail) ==
    LET p == TipIndexPut(s.tipIndex, ts, root)
        w == WriteTipSetAndState(s.dsState, ts, root, fail = Len_(ts) + 1)
    IN  IF ~p.ok THEN [err |-> TRUE, s |-> s]
        ELSE IF fail \in 1..Len_(ts)
        THEN [err |-> TRUE,
              s |-> StoreOf(s.bsPriv \cup FirstBlocks(ts, fail - 1), p.ti, s.dsState)]
        ELSE [err |-> w.err, s |-> StoreOf(s.bsPriv \cup ts, p.ti, w.ds)]

\* A PutTipSetAndState that goes on to write the state record when
\* tipIndex.Put has returned an error.
PutTipSetAndStateOpIgnoresConflict(s, ts, root, fail) ==
    IF fail \in 1..Len_(ts)
    THEN [err |-> TRUE,
          s |-> [s EXCEPT !.bsPriv = @ \cup FirstBlocks(ts, fail - 1)]]
    ELSE LET p == TipIndexPut(s.tipIndex, ts, root)
             w == WriteTipSetAndState(s.dsState, ts, root, fail = Len_(ts) + 1)
         IN  [err |-> w.err, s |-> StoreOf(s.bsPriv \cup ts, p.ti, w.ds)]

\* A PutTipSetAndState that writes the state record before it updates the
\* tipset index.
PutTipSetAndStateOpRecordFirst(s, ts, root, fail) ==
    IF fail \in 1..Len_(ts)
    THEN [err |-> TRUE,
          s |-> [s EXCEPT !.bsPriv = @ \cup FirstBlocks(ts, fail - 1)]]
    ELSE LET bs == s.bsPriv \cup ts
             w  == WriteTipSetAndState(s.dsState, ts, root, fail = Len_(ts) + 1)
             p  == TipIndexPut(s.tipIndex, ts, root)
         IN  IF w.err
             THEN [err |-> TRUE, s |-> [s EXCEPT !.bsPriv = bs]]
             ELSE IF ~p.ok
             THEN [err |-> TRUE, s |-> StoreOf(bs, s.tipIndex, w.ds)]
             ELSE [err |-> FALSE, s |-> StoreOf(bs, p.ti, w.ds)]

\* PutTipSetAndState.  fail names the datastore write that fails: 0 none,
\* i in 1..Len the putBlk of the i-th block, Len+1 the state record's Put.
PutTipSetAndStateOp(s, ts, root, fail) ==
    IF fail \in 1..Len_(ts)
    THEN [err |-> TRUE,
          s |-> [s EXCEPT !.bsPriv = @ \cup FirstBlocks(ts, fail - 1)]]
    ELSE LET bs == s.bsPriv \cup ts
             p  == TipIndexPut(s.tipIndex, ts, root)
             w  == WriteTipSetAndState(s.dsState, ts, root, fail = Len_(ts) + 1)
         IN  IF ~p.ok
             THEN [err |-> TRUE, s |-> [s EXCEPT !.bsPriv = bs]]
             ELSE [err |-> w.err, s |-> StoreOf(bs, p.ti, w.ds)]

\* HasBlock / HasAllBlocks.
HasBlock(bs, c) == c \in bs
HasAllBlocks(bs, cids) == \A c \in cids : HasBlock(bs, c)

\* LoadTipSetBlocks: the tipset of the blocks named by key, read from the
\* block store.  The empty key yields the undefined tipset.
LoadTipSetBlocks(bs, key) ==
    IF HasAllBlocks(bs, key) THEN [err |-> FALSE, ts |-> key]
    ELSE [err |-> TRUE, ts |-> UndefTipSet]

\* A loadStateRoot that returns a root for a tipset that has no state
\* record.
LoadStateRootDefault(ds, ts) ==
    IF MakeKey(ts) \in DOMAIN ds THEN [err |-> FALSE, root |-> ds[MakeKey(ts)]]
    ELSE [err |-> FALSE, root |-> 1]

\* loadStateRoot.
LoadStateRoot(ds, ts) ==
    IF MakeKey(ts) \in DOMAIN ds THEN [err |-> FALSE, root |-> ds[MakeKey(ts)]]
    ELSE [err |-> TRUE, root |-> Undef]

\* The loop of Load from a defined iterator value ts, the n-th visited.
\* inj = <<visit, write>> injects a datastore failure into the
\* PutTipSetAndState of that visit: write 1 fails its first putBlk, write 2
\* the Put of its state record.  The result holds the store reached,
\* whether the loop returned an error, and genesii, the last tipset whose
\* body completed.
RECURSIVE LoadLoop(_, _, _, _)
LoadLoop(s, ts, n, inj) ==
    LET sr == LoadStateRoot(s.dsState, ts)
        p  == PutTipSetAndStateOp(s, ts, sr.root,
                  IF inj[1] # n THEN 0 ELSE IF inj[2] = 1 THEN 1 ELSE Len_(ts) + 1)
        nx == LoadTipSetBlocks(p.s.bsPriv, TsParents(ts))
    IN  IF sr.err THEN [err |-> TRUE, s |-> s, genesii |-> UndefTipSet]
        ELSE IF p.err THEN [err |-> TRUE, s |-> p.s, genesii |-> UndefTipSet]
        ELSE IF ~Defined(nx.ts) THEN [err |-> FALSE, s |-> p.s, genesii |-> ts]
        ELSE LoadLoop(p.s, nx.ts, n + 1, inj)

\* A Load that leaves out the comparison with store.genesis.
LoadOpNoCidCheck(bs, ti, ds, dh, gen, inj) ==
    LET s0 == StoreOf(bs, NewTipIndex, ds)
        h  == IF dh = <<>> THEN [err |-> TRUE, ts |-> UndefTipSet]
              ELSE LoadTipSetBlocks(bs, dh[1])
        w  == LoadLoop(s0, h.ts, 1, inj)
        R(why, st, g) == [why |-> why, s |-> st, headTs |-> h.ts, genesii |-> g]
    IN  IF dh = <<>> THEN R("nohead", s0, UndefTipSet)
        ELSE IF h.err \/ ~Defined(h.ts) THEN R("headblocks", s0, UndefTipSet)
        ELSE IF w.err THEN R("traversal", w.s, UndefTipSet)
        ELSE IF Len_(w.genesii) # 1 THEN R("genesis", w.s, w.genesii)
        ELSE R("ok", w.s, w.genesii)

\* A Load that leaves out the clearing of the tipset index.
LoadOpNoClear(bs, ti, ds, dh, gen, inj) ==
    LET s0 == StoreOf(bs, ti, ds)
        h  == IF dh = <<>> THEN [err |-> TRUE, ts |-> UndefTipSet]
              ELSE LoadTipSetBlocks(bs, dh[1])
        w  == LoadLoop(s0, h.ts, 1, inj)
        R(why, st, g) == [why |-> why, s |-> st, headTs |-> h.ts, genesii |-> g]
    IN  IF dh = <<>> THEN R("nohead", s0, UndefTipSet)
        ELSE IF h.err \/ ~Defined(h.ts) THEN R("headblocks", s0, UndefTipSet)
        ELSE IF w.err THEN R("traversal", w.s, UndefTipSet)
        ELSE IF Len_(w.genesii) # 1 THEN R("genesis", w.s, w.genesii)
        ELSE IF At(w.genesii, 1) # gen THEN R("genesis", w.s, w.genesii)
        ELSE R("ok", w.s, w.genesii)

\* A Load that replaces the tipset index only after it has read the head key.
LoadOpClearsLate(bs, ti, ds, dh, gen, inj) ==
    LET s0 == StoreOf(bs, NewTipIndex, ds)
        h  == IF dh = <<>> THEN [err |-> TRUE, ts |-> UndefTipSet]
              ELSE LoadTipSetBlocks(bs, dh[1])
        w  == LoadLoop(s0, h.ts, 1, inj)
        R(why, st, g) == [why |-> why, s |-> st, headTs |-> h.ts, genesii |-> g]
    IN  IF dh = <<>> THEN R("nohead", StoreOf(bs, ti, ds), UndefTipSet)
        ELSE IF h.err \/ ~Defined(h.ts) THEN R("headblocks", s0, UndefTipSet)
        ELSE IF w.err THEN R("traversal", w.s, UndefTipSet)
        ELSE IF Len_(w.genesii) # 1 THEN R("genesis", w.s, w.genesii)
        ELSE IF At(w.genesii, 1) # gen THEN R("genesis", w.s, w.genesii)
        ELSE R("ok", w.s, w.genesii)

\* Load up to its final SetHead: the index ti is replaced by a new one, the
\* head key read, the ancestors traversed and the genesis checked.  why = "ok": SetHead(headTs)
\* is called next; otherwise why names the return that ended Load.
LoadOp(bs, ti, ds, dh, gen, inj) ==
    LET s0 == StoreOf(bs, NewTipIndex, ds)
        h  == IF dh = <<>> THEN [err |-> TRUE, ts |-> UndefTipSet]
              ELSE LoadTipSetBlocks(bs, dh[1])
        w  == LoadLoop(s0, h.ts, 1, inj)
        R(why, st, g) == [why |-> why, s |-> st, headTs |-> h.ts, genesii |-> g]
    IN  IF dh = <<>> THEN R("nohead", s0, UndefTipSet)
        ELSE IF h.err \/ ~Defined(h.ts) THEN R("headblocks", s0, UndefTipSet)
        ELSE IF w.err THEN R("traversal", w.s, UndefTipSet)
        ELSE IF Len_(w.genesii) # 1 THEN R("genesis", w.s, w.genesii)
        ELSE IF At(w.genesii, 1) # gen THEN R("genesis", w.s, w.genesii)
        ELSE R("ok", w.s, w.genesii)

\* Whether the datastore lacks a block or the state record of the tipset
\* named by key or of one of its ancestors.
RECURSIVE MissingFrom(_, _, _)
MissingFrom(bs, ds, key) ==
    IF key = {} THEN FALSE
    ELSE IF ~HasAllBlocks(bs, key) THEN TRUE
    ELSE IF MakeKey(key) \notin DOMAIN ds THEN TRUE
    ELSE MissingFrom(bs, ds, TsParents(key))

\* The same for the chain named by the head key dh.
ChainMissing(bs, ds, dh) == dh # <<>> /\ MissingFrom(bs, ds, dh[1])

\* writeHead: the record under headKey once the key of ts is written.
WriteHead(ts) == <<ts>>

\* A GetHead that returns the key of the head's parents.
GetHeadOfParents(h) == IF ~Defined(h) THEN {} ELSE TsParents(h)

\* GetHead's result for an in-memory head.
GetHeadOf(h) == IF ~Defined(h) THEN {} ELSE h

\* ------------------------------------------------------- broadcaster
\* PubSub.Pub blocks while a subscriber's channel is full.
CanPub(sb, ch, down) == down \/ \A s \in sb : Len(ch[s]) < Backlog

\* PubSub.Pub: the channels after msg is published; a no-op after Shutdown.
Pub(sb, ch, down, msg) ==
    IF down THEN ch
    ELSE [s \in DOMAIN ch |-> IF s \in sb THEN Append(ch[s], msg) ELSE ch[s]]

\* -------------------------------------------------------------- state
VARIABLES
    bsPriv,     \* store.bsPriv: the CIDs of the blocks in the block store
    dsState,    \* store.ds: state records, MakeKey(ts) -> state root
    dsHead,     \* store.ds at headKey: <<>> or <<key>>
    tipIndex,   \* store.tipIndex
    head,       \* store.head
    genesis,    \* store.genesis
    mu,         \* store.mu: [writer, readers]
    subs,       \* store.headEvents: subscribers of NewHeadTopic
    chans,      \* store.headEvents: each subscriber's channel
    shutdown,   \* store.headEvents: Shutdown was called
    pc,         \* each thread's position
    arg,        \* each thread's SetHead argument while SetHead runs
    got,        \* each thread's last GetHead result
    observe,    \* history: TRUE records the head history of concurrent callers
                \*          (setLog .. doneIdx), FALSE the last call of a single
                \*          caller (pubbed, pre, lastLoad)
    recv,       \* history: the events each subscriber has received
    early,      \* history: the subscriber subscribed before any SetHead call
    setLog,     \* history: the tipsets assigned to store.head, in order
    callers,    \* history: the threads that have called SetHead
    track,      \* history: per thread, indexes into setLog, and the number of
                \*          events each subscriber had received when the thread
                \*          called GetHead
    doneIdx,    \* history: the last index of setLog whose SetHead returned nil
    putOk,      \* history: the <<tipset, root>> PutTipSetAndState returned nil
                \*          for, on this store and until its first Load
    loaded,     \* history: Load was called on this store
    clean,      \* history: only successful PutTipSetAndState and SetHead calls so far
    indexed,    \* history: every SetHead call named a tipset then in the index
    pre,        \* history: the store NewStore replaced, until the next call
    lastLoad,   \* history: the Load that ran last, until the next call, with
                \*          the head, head key and genesis it found and whether
                \*          a block or state record of the chain was missing
    pubbed,     \* history: the events the call that ran last handed to Pub
    n,          \* history: PutTipSetAndState calls made, and SetHead calls
                \*          recorded in the head history, for the bounds
    lastPut,    \* history: the PutTipSetAndState call that ran last, when on
    lastSet,    \* history: the SetHead call of a single caller that ran last,
                \*          when on
    atStop,     \* history: what Stop found
    logRun,     \* Load's traversal loop: startHeight, the height of the
                \*          tipset to visit next, the progress messages logged
    tipIndexMu, \* store.tipIndex's own lock: [writer, readers]
    putRoot,    \* each thread's state root while PutTipSetAndState runs
    node        \* the node's AddNewBlock: its position, the block, the steps
                \*          done, node.cborStore, what the Syncer has handled,
                \*          what was published on BlockTopic, the last return

storeVars == <<bsPriv, dsState, tipIndex>>
headVars  == <<dsHead, head, genesis, mu>>
pubVars   == <<subs, chans, shutdown, recv, early>>
thrVars   == <<pc, arg, got>>
logVars   == <<observe, setLog, callers, track, doneIdx>>
histVars  == <<putOk, loaded, clean, indexed, pre, lastLoad, pubbed, n>>
probeVars == <<lastPut, lastSet, atStop, logRun>>
ixVars    == <<tipIndexMu, putRoot>>
nodeVars  == <<node>>
vars == <<storeVars, headVars, pubVars, thrVars, logVars, histVars, probeVars, ixVars, nodeVars>>

NoPre == [head |-> UndefTipSet, byKey |-> EmptyMap, valid |-> FALSE, made |-> FALSE]

NoLoad == [why |-> "none", headTs |-> UndefTipSet, genesii |-> UndefTipSet,
           io |-> FALSE, pre |-> NoPre, head |-> UndefTipSet,
           dsHead |-> <<>>, genesis |-> Undef, missing |-> FALSE]

NoTrack == [mine |-> 0, from |-> 0, at |-> 0, rcvd |-> [s \in Subs |-> 0]]

NoPut == [on |-> FALSE, made |-> FALSE, ts |-> UndefTipSet, root |-> Undef,
          fail |-> 0, err |-> FALSE, okBefore |-> {},
          was |-> StoreOf({}, NewTipIndex, EmptyMap)]

NoSet == [on |-> FALSE, made |-> FALSE, ts |-> UndefTipSet, ioOk |-> FALSE,
          err |-> FALSE, logged |-> FALSE, subs |-> {},
          was |-> [head |-> UndefTipSet, dsHead |-> <<>>,
                   sent |-> [s \in Subs |-> <<>>]]]

NoStop == [made |-> FALSE, sent |-> [s \in Subs |-> <<>>], calls |-> 0]

NoLogRun == [startHeight |-> 0, height |-> 0, logged |-> 0, complete |-> TRUE]

NoReturn == [made |-> FALSE, b |-> Undef, did |-> <<>>, err |-> FALSE,
             pubBefore |-> <<>>]

\* A node that has added no block.
NoNode == [pc |-> "idle", b |-> Undef, did |-> <<>>, cborStore |-> {},
           synced |-> {}, published |-> <<>>, pubBefore |-> <<>>, calls |-> 0,
           last |-> NoReturn]

\* No history of single calls, no Stop, no traversal loop under way.
NoProbes ==
    /\ lastPut = NoPut
    /\ lastSet = NoSet
    /\ atStop = NoStop
    /\ logRun = NoLogRun

\* NewStore over an empty datastore.
InitStore ==
    /\ bsPriv = {}
    /\ dsState = EmptyMap
    /\ dsHead = <<>>
    /\ tipIndex = NewTipIndex
    /\ head = UndefTipSet
    /\ genesis = 1
    /\ mu = [writer |-> 0, readers |-> {}]
    /\ subs = {}
    /\ chans = [s \in Subs |-> <<>>]
    /\ shutdown = FALSE
    /\ pc = [t \in Threads |-> "idle"]
    /\ arg = [t \in Threads |-> UndefTipSet]
    /\ got = [t \in Threads |-> {}]
    /\ recv = [s \in Subs |-> <<>>]
    /\ early = [s \in Subs |-> FALSE]
    /\ setLog = <<>>
    /\ callers = {}
    /\ track = [t \in Threads |-> NoTrack]
    /\ doneIdx = 0
    /\ putOk = {}
    /\ loaded = FALSE
    /\ clean = TRUE
    /\ indexed = TRUE
    /\ pre = NoPre
    /\ lastLoad = NoLoad
    /\ pubbed = <<>>
    /\ n = [put |-> 0, setHead |-> 0]
    /\ tipIndexMu = [writer |-> 0, readers |-> {}]
    /\ putRoot = [t \in Threads |-> Undef]
    /\ node = NoNode

Init == InitStore /\ observe = FALSE /\ NoProbes

InitConc == InitStore /\ observe = TRUE /\ NoProbes

\* ------------------------------------------------------------ actions
Max(a, b) == IF a >= b THEN a ELSE b

\* The tipsets from ts back to a parentless one, following Parents.
RECURSIVE Chain(_)
Chain(ts) == IF TsParents(ts) = {} THEN {ts} ELSE {ts} \cup Chain(TsParents(ts))

\* The parentless tipset Chain(ts) ends at.
RECURSIVE Terminus(_)
Terminus(ts) == IF TsParents(ts) = {} THEN ts ELSE Terminus(TsParents(ts))

\* The datastore failures a Load can meet: none, or in the PutTipSetAndState
\* of one visit.
Injections ==
    {<<0, 0>>} \cup ({Cardinality(Chain(ts)) : ts \in TipSets} \X (1..2))

\* A PutTipSetAndState that makes the tipset it has put the head.
PutTipSetAndStateSetsHead(t, ts, root, fail) ==
    /\ pc[t] = "idle"
    /\ n.put < MaxPut
    /\ LET r == PutTipSetAndStateOp(StoreOf(bsPriv, tipIndex, dsState), ts, root, fail)
       IN  /\ bsPriv' = r.s.bsPriv
           /\ tipIndex' = r.s.tipIndex
           /\ dsState' = r.s.dsState
           /\ putOk' = IF r.err \/ loaded THEN putOk ELSE putOk \cup {<<ts, root>>}
           /\ clean' = (clean /\ ~r.err)
           /\ head' = IF r.err THEN head ELSE ts
           /\ dsHead' = IF r.err THEN dsHead ELSE WriteHead(ts)
           /\ lastPut' = IF lastPut.on
                         THEN [on |-> TRUE, made |-> TRUE, ts |-> ts, root |-> root,
                               fail |-> fail, err |-> r.err, okBefore |-> putOk,
                               was |-> StoreOf(bsPriv, tipIndex, dsState)]
                         ELSE lastPut
    /\ pre' = NoPre
    /\ lastLoad' = NoLoad
    /\ pubbed' = <<>>
    /\ n' = [n EXCEPT !.put = @ + 1]
    /\ UNCHANGED <<genesis, mu, pubVars, thrVars, logVars, loaded, indexed>>
    /\ UNCHANGED <<lastSet, atStop, logRun, ixVars, nodeVars>>

\* PutTipSetAndState, called by thread t.
PutTipSetAndState(t, ts, root, fail) ==
    /\ pc[t] = "idle"
    /\ n.put < MaxPut
    /\ LET r == PutTipSetAndStateOp(StoreOf(bsPriv, tipIndex, dsState), ts, root, fail)
       IN  /\ bsPriv' = r.s.bsPriv
           /\ tipIndex' = r.s.tipIndex
           /\ dsState' = r.s.dsState
           /\ putOk' = IF r.err \/ loaded THEN putOk ELSE putOk \cup {<<ts, root>>}
           /\ clean' = (clean /\ ~r.err)
           /\ lastPut' = IF lastPut.on
                         THEN [on |-> TRUE, made |-> TRUE, ts |-> ts, root |-> root,
                               fail |-> fail, err |-> r.err, okBefore |-> putOk,
                               was |-> StoreOf(bsPriv, tipIndex, dsState)]
                         ELSE lastPut
    /\ pre' = NoPre
    /\ lastLoad' = NoLoad
    /\ pubbed' = <<>>
    /\ n' = [n EXCEPT !.put = @ + 1]
    /\ UNCHANGED <<headVars, pubVars, thrVars, logVars, loaded, indexed>>
    /\ UNCHANGED <<lastSet, atStop, logRun, ixVars, nodeVars>>

\* SetHead is called: the logging before setHeadPersistent.
SetHeadEnter(t, ts) ==
    /\ pc[t] = "idle"
    /\ pc' = [pc EXCEPT ![t] = "sh_lock"]
    /\ arg' = [arg EXCEPT ![t] = ts]
    /\ callers' = IF observe THEN callers \cup {t} ELSE callers
    /\ indexed' = (indexed /\ TipIndexHas(tipIndex, ts))
    /\ pre' = NoPre
    /\ lastLoad' = NoLoad
    /\ n' = IF observe THEN [n EXCEPT !.setHead = @ + 1] ELSE n
    /\ UNCHANGED <<storeVars, headVars, pubVars, got>>
    /\ UNCHANGED <<observe, setLog, track, doneIdx, putOk, loaded, clean, pubbed>>
    /\ UNCHANGED <<probeVars, ixVars, nodeVars>>

\* SetHead is called, while the head history has room for the call.
SetHeadCall(t, ts) ==
    /\ n.setHead < MaxSetHead
    /\ SetHeadEnter(t, ts)

\* A setHeadPersistent that takes the read lock of the tipset index once it
\* has store.mu, and keeps it.
SetHeadLockTakesIndex(t) ==
    /\ pc[t] = "sh_lock"
    /\ mu.writer = 0 /\ mu.readers = {}
    /\ tipIndexMu.writer = 0
    /\ mu' = [mu EXCEPT !.writer = t]
    /\ tipIndexMu' = [tipIndexMu EXCEPT !.readers = @ \cup {t}]
    /\ pc' = [pc EXCEPT ![t] = "sh_write"]
    /\ UNCHANGED <<storeVars, dsHead, head, genesis, pubVars, arg, got>>
    /\ UNCHANGED <<logVars, histVars, probeVars, putRoot, nodeVars>>

\* setHeadPersistent: store.mu.Lock().
SetHeadLock(t) ==
    /\ pc[t] = "sh_lock"
    /\ mu.writer = 0 /\ mu.readers = {}
    /\ mu' = [mu EXCEPT !.writer = t]
    /\ pc' = [pc EXCEPT ![t] = "sh_write"]
    /\ UNCHANGED <<storeVars, dsHead, head, genesis, pubVars, arg, got>>
    /\ UNCHANGED <<logVars, histVars>>
    /\ UNCHANGED <<probeVars, ixVars, nodeVars>>

\* A setHeadPersistent that gives up store.mu once the head key is written,
\* before store.head is assigned.
SetHeadWriteOkUnlocks(t) ==
    /\ pc[t] = "sh_write"
    /\ dsHead' = WriteHead(arg[t])
    /\ mu' = [mu EXCEPT !.writer = 0]
    /\ pc' = [pc EXCEPT ![t] = "sh_assign"]
    /\ UNCHANGED <<storeVars, head, genesis, pubVars, arg, got>>
    /\ UNCHANGED <<logVars, histVars>>
    /\ UNCHANGED <<probeVars, ixVars, nodeVars>>

\* A setHeadPersistent that publishes the event and gives up store.mu once
\* the head key is written, before store.head is assigned.
SetHeadWriteOkPublishes(t) ==
    /\ pc[t] = "sh_write"
    /\ dsHead' = WriteHead(arg[t])
    /\ chans' = Pub(subs, chans, shutdown, arg[t])
    /\ mu' = [mu EXCEPT !.writer = 0]
    /\ pc' = [pc EXCEPT ![t] = "sh_assign"]
    /\ UNCHANGED <<storeVars, head, genesis, subs, shutdown, recv, early, arg, got>>
    /\ UNCHANGED <<logVars, histVars>>
    /\ UNCHANGED <<probeVars, ixVars, nodeVars>>

\* setHeadPersistent: writeHead succeeds.
SetHeadWriteOk(t) ==
    /\ pc[t] = "sh_write"
    /\ dsHead' = WriteHead(arg[t])
    /\ pc' = [pc EXCEPT ![t] = "sh_assign"]
    /\ UNCHANGED <<storeVars, head, genesis, mu, pubVars, arg, got>>
    /\ UNCHANGED <<logVars, histVars>>
    /\ UNCHANGED <<probeVars, ixVars, nodeVars>>

\* A SetHead that goes on to publish when writeHead has failed.
SetHeadWriteFailPublishes(t) ==
    /\ pc[t] = "sh_write"
    /\ mu' = [mu EXCEPT !.writer = 0]
    /\ pc' = [pc EXCEPT ![t] = "sh_pub"]
    /\ clean' = FALSE
    /\ UNCHANGED <<storeVars, dsHead, head, genesis, pubVars, arg, got>>
    /\ UNCHANGED <<logVars, putOk, loaded, indexed, pre, lastLoad, pubbed, n>>
    /\ UNCHANGED <<probeVars, ixVars, nodeVars>>

\* setHeadPersistent: writeHead fails; the deferred Unlock runs and SetHead
\* returns the error.
SetHeadWriteFail(t) ==
    /\ pc[t] = "sh_write"
    /\ mu' = [mu EXCEPT !.writer = 0]
    /\ pc' = [pc EXCEPT ![t] = "idle"]
    /\ arg' = [arg EXCEPT ![t] = UndefTipSet]
    /\ clean' = FALSE
    /\ lastLoad' = lastLoad
    /\ UNCHANGED <<storeVars, dsHead, head, genesis, pubVars, got>>
    /\ UNCHANGED <<logVars, putOk, loaded, indexed, pre, pubbed, n>>
    /\ UNCHANGED <<probeVars, ixVars, nodeVars>>

\* A setHeadPersistent that leaves out the assignment of store.head.
SetHeadAssignNoHead(t) ==
    /\ pc[t] = "sh_assign"
    /\ head' = head
    /\ mu' = [mu EXCEPT !.writer = 0]
    /\ pc' = [pc EXCEPT ![t] = "sh_pub"]
    /\ setLog' = IF observe THEN Append(setLog, arg[t]) ELSE setLog
    /\ track' = IF observe THEN [track EXCEPT ![t].mine = Len(setLog) + 1] ELSE track
    /\ UNCHANGED <<storeVars, dsHead, genesis, pubVars, arg, got>>
    /\ UNCHANGED <<observe, callers, doneIdx, histVars>>
    /\ UNCHANGED <<probeVars, ixVars, nodeVars>>

\* setHeadPersistent: store.head = ts, then the deferred Unlock.
SetHeadAssign(t) ==
    /\ pc[t] = "sh_assign"
    /\ head' = arg[t]
    /\ mu' = [mu EXCEPT !.writer = 0]
    /\ pc' = [pc EXCEPT ![t] = "sh_pub"]
    /\ setLog' = IF observe THEN Append(setLog, arg[t]) ELSE setLog
    /\ track' = IF observe THEN [track EXCEPT ![t].mine = Len(setLog) + 1] ELSE track
    /\ UNCHANGED <<storeVars, dsHead, genesis, pubVars, arg, got>>
    /\ UNCHANGED <<observe, callers, doneIdx, histVars>>
    /\ UNCHANGED <<probeVars, ixVars, nodeVars>>

\* A SetHead whose publish does not wait for a subscriber: an event that
\* finds a channel full is dropped.
SetHeadPubNoWait(t) ==
    /\ pc[t] = "sh_pub"
    /\ chans' = [s \in DOMAIN chans |->
                    IF Len(chans[s]) < Backlog
                    THEN Pub(subs, chans, shutdown, arg[t])[s]
                    ELSE chans[s]]
    /\ pc' = [pc EXCEPT ![t] = "idle"]
    /\ arg' = [arg EXCEPT ![t] = UndefTipSet]
    /\ doneIdx' = Max(doneIdx, track[t].mine)
    /\ lastLoad' = lastLoad
    /\ UNCHANGED <<storeVars, headVars, subs, shutdown, recv, early, got>>
    /\ UNCHANGED <<observe, setLog, callers, track>>
    /\ UNCHANGED <<putOk, loaded, clean, indexed, pre, pubbed, n>>
    /\ UNCHANGED <<probeVars, ixVars, nodeVars>>

\* A SetHead whose publish waits for ever once the broadcaster is shut down.
SetHeadPubStuckAfterShutdown(t) ==
    /\ pc[t] = "sh_pub"
    /\ ~shutdown
    /\ CanPub(subs, chans, shutdown)
    /\ chans' = Pub(subs, chans, shutdown, arg[t])
    /\ pc' = [pc EXCEPT ![t] = "idle"]
    /\ arg' = [arg EXCEPT ![t] = UndefTipSet]
    /\ doneIdx' = Max(doneIdx, track[t].mine)
    /\ lastLoad' = lastLoad
    /\ UNCHANGED <<storeVars, headVars, subs, shutdown, recv, early, got>>
    /\ UNCHANGED <<observe, setLog, callers, track>>
    /\ UNCHANGED <<putOk, loaded, clean, indexed, pre, pubbed, n>>
    /\ UNCHANGED <<probeVars, ixVars, nodeVars>>

\* A SetHead that publishes no event for a tipset equal to the one of the
\* event before.
SetHeadPubDedup(t) ==
    /\ pc[t] = "sh_pub"
    /\ CanPub(subs, chans, shutdown)
    /\ chans' = [s \in DOMAIN chans |->
                    LET sent == recv[s] \o chans[s]
                    IN  IF sent # <<>> /\ sent[Len(sent)] = arg[t]
                        THEN chans[s]
                        ELSE Pub(subs, chans, shutdown, arg[t])[s]]
    /\ pc' = [pc EXCEPT ![t] = "idle"]
    /\ arg' = [arg EXCEPT ![t] = UndefTipSet]
    /\ doneIdx' = Max(doneIdx, track[t].mine)
    /\ lastLoad' = lastLoad
    /\ UNCHANGED <<storeVars, headVars, subs, shutdown, recv, early, got>>
    /\ UNCHANGED <<observe, setLog, callers, track>>
    /\ UNCHANGED <<putOk, loaded, clean, indexed, pre, pubbed, n>>
    /\ UNCHANGED <<probeVars, ixVars, nodeVars>>

\* SetHead: the event is published and SetHead returns nil.
SetHeadPub(t) ==
    /\ pc[t] = "sh_pub"
    /\ CanPub(subs, chans, shutdown)
    /\ chans' = Pub(subs, chans, shutdown, arg[t])
    /\ pc' = [pc EXCEPT ![t] = "idle"]
    /\ arg' = [arg EXCEPT ![t] = UndefTipSet]
    /\ doneIdx' = Max(doneIdx, track[t].mine)
    /\ lastLoad' = lastLoad
    /\ UNCHANGED <<storeVars, headVars, subs, shutdown, recv, early, got>>
    /\ UNCHANGED <<observe, setLog, callers, track>>
    /\ UNCHANGED <<putOk, loaded, clean, indexed, pre, pubbed, n>>
    /\ UNCHANGED <<probeVars, ixVars, nodeVars>>

\* GetHead is called.
GetHeadCall(t) ==
    /\ pc[t] = "idle"
    /\ pc' = [pc EXCEPT ![t] = "gh_rlock"]
    /\ track' = [track EXCEPT ![t].from = doneIdx, ![t].at = 0,
                              ![t].rcvd = [s \in Subs |-> Len(recv[s])]]
    /\ got' = [got EXCEPT ![t] = {}]
    /\ UNCHANGED <<storeVars, headVars, pubVars, arg>>
    /\ UNCHANGED <<observe, setLog, callers, doneIdx, histVars>>
    /\ UNCHANGED <<probeVars, ixVars, nodeVars>>

\* GetHead: store.mu.RLock().
GetHeadRLock(t) ==
    /\ pc[t] = "gh_rlock"
    /\ mu.writer = 0
    /\ mu' = [mu EXCEPT !.readers = @ \cup {t}]
    /\ pc' = [pc EXCEPT ![t] = "gh_read"]
    /\ UNCHANGED <<storeVars, dsHead, head, genesis, pubVars, arg, got>>
    /\ UNCHANGED <<logVars, histVars>>
    /\ UNCHANGED <<probeVars, ixVars, nodeVars>>

\* GetHead: the head is read, the deferred RUnlock runs, GetHead returns.
GetHeadRead(t) ==
    /\ pc[t] = "gh_read"
    /\ got' = [got EXCEPT ![t] = GetHeadOf(head)]
    /\ mu' = [mu EXCEPT !.readers = @ \ {t}]
    /\ pc' = [pc EXCEPT ![t] = "gh_done"]
    /\ track' = [track EXCEPT ![t].at = Len(setLog)]
    /\ UNCHANGED <<storeVars, dsHead, head, genesis, pubVars, arg>>
    /\ UNCHANGED <<observe, setLog, callers, doneIdx, histVars>>
    /\ UNCHANGED <<probeVars, ixVars, nodeVars>>

\* The caller has used GetHead's result.
GetHeadDone(t) ==
    /\ pc[t] = "gh_done"
    /\ pc' = [pc EXCEPT ![t] = "idle"]
    /\ got' = [got EXCEPT ![t] = {}]
    /\ track' = [track EXCEPT ![t].from = 0, ![t].at = 0, ![t].rcvd = NoTrack.rcvd]
    /\ UNCHANGED <<storeVars, headVars, pubVars, arg>>
    /\ UNCHANGED <<observe, setLog, callers, doneIdx, histVars>>
    /\ UNCHANGED <<probeVars, ixVars, nodeVars>>

\* BlockHeight is called.
BlockHeightCall(t) ==
    /\ pc[t] = "idle"
    /\ pc' = [pc EXCEPT ![t] = "bh_rlock"]
    /\ UNCHANGED <<storeVars, headVars, pubVars, arg, got>>
    /\ UNCHANGED <<logVars, histVars, probeVars, ixVars, nodeVars>>

\* BlockHeight: store.mu.RLock().
BlockHeightRLock(t) ==
    /\ pc[t] = "bh_rlock"
    /\ mu.writer = 0
    /\ mu' = [mu EXCEPT !.readers = @ \cup {t}]
    /\ pc' = [pc EXCEPT ![t] = "bh_read"]
    /\ UNCHANGED <<storeVars, dsHead, head, genesis, pubVars, arg, got>>
    /\ UNCHANGED <<logVars, histVars, probeVars, ixVars, nodeVars>>

\* BlockHeight: store.head.Height() is read, the deferred RUnlock runs and
\* BlockHeight returns.
BlockHeightRead(t) ==
    /\ pc[t] = "bh_read"
    /\ mu' = [mu EXCEPT !.readers = @ \ {t}]
    /\ pc' = [pc EXCEPT ![t] = "idle"]
    /\ UNCHANGED <<storeVars, dsHead, head, genesis, pubVars, arg, got>>
    /\ UNCHANGED <<logVars, histVars, probeVars, ixVars, nodeVars>>

\* GenesisCid is called.
GenesisCidCall(t) ==
    /\ pc[t] = "idle"
    /\ pc' = [pc EXCEPT ![t] = "gc_lock"]
    /\ UNCHANGED <<storeVars, headVars, pubVars, arg, got>>
    /\ UNCHANGED <<logVars, histVars, probeVars, ixVars, nodeVars>>

\* A GenesisCid that takes store.mu with RLock.
GenesisCidLockShared(t) ==
    /\ pc[t] = "gc_lock"
    /\ mu.writer = 0
    /\ mu' = [mu EXCEPT !.readers = @ \cup {t}]
    /\ pc' = [pc EXCEPT ![t] = "gc_read"]
    /\ UNCHANGED <<storeVars, dsHead, head, genesis, pubVars, arg, got>>
    /\ UNCHANGED <<logVars, histVars, probeVars, ixVars, nodeVars>>

\* GenesisCid: store.mu.Lock().
GenesisCidLock(t) ==
    /\ pc[t] = "gc_lock"
    /\ mu.writer = 0 /\ mu.readers = {}
    /\ mu' = [mu EXCEPT !.writer = t]
    /\ pc' = [pc EXCEPT ![t] = "gc_read"]
    /\ UNCHANGED <<storeVars, dsHead, head, genesis, pubVars, arg, got>>
    /\ UNCHANGED <<logVars, histVars, probeVars, ixVars, nodeVars>>

\* GenesisCid: store.genesis is read, the deferred Unlock runs and
\* GenesisCid returns.
GenesisCidRead(t) ==
    /\ pc[t] = "gc_read"
    /\ mu' = [writer |-> IF mu.writer = t THEN 0 ELSE mu.writer,
              readers |-> mu.readers \ {t}]
    /\ pc' = [pc EXCEPT ![t] = "idle"]
    /\ UNCHANGED <<storeVars, dsHead, head, genesis, pubVars, arg, got>>
    /\ UNCHANGED <<logVars, histVars, probeVars, ixVars, nodeVars>>

\* A SetHead that persists and assigns the head and publishes no event.
SetHeadRunSilent(ts, ioOk) ==
    /\ mu.writer = 0 /\ mu.readers = {}
    /\ IF ioOk
       THEN /\ dsHead' = WriteHead(ts)
            /\ head' = ts
            /\ chans' = chans
            /\ pubbed' = <<>>
       ELSE /\ UNCHANGED <<dsHead, head, chans>>
            /\ pubbed' = <<>>

\* A SetHead that assigns the head although the write of the head key has
\* failed.
SetHeadRunAssignsOnError(ts, ioOk) ==
    /\ mu.writer = 0 /\ mu.readers = {}
    /\ IF ioOk
       THEN /\ CanPub(subs, chans, shutdown)
            /\ dsHead' = WriteHead(ts)
            /\ head' = ts
            /\ chans' = Pub(subs, chans, shutdown, ts)
            /\ pubbed' = <<ts>>
       ELSE /\ UNCHANGED <<dsHead, chans>>
            /\ head' = ts
            /\ pubbed' = <<>>

\* SetHead run by a single caller, from its call to its return: the head
\* key is written, the head assigned and the event published; ioOk: the
\* datastore's Put of the head key succeeds.
SetHeadRun(ts, ioOk) ==
    /\ mu.writer = 0 /\ mu.readers = {}
    /\ IF ioOk
       THEN /\ CanPub(subs, chans, shutdown)
            /\ dsHead' = WriteHead(ts)
            /\ head' = ts
            /\ chans' = Pub(subs, chans, shutdown, ts)
            /\ pubbed' = <<ts>>
       ELSE /\ UNCHANGED <<dsHead, head, chans>>
            /\ pubbed' = <<>>

\* A SetHead that returns an error for an undefined tipset.
SetHeadRejectsUndefined(t, ts, ioOk) ==
    /\ pc[t] = "idle"
    /\ n.setHead < MaxSetHead
    /\ IF Defined(ts)
       THEN SetHeadRun(ts, ioOk)
       ELSE UNCHANGED <<dsHead, head, chans>> /\ pubbed' = <<>>
    /\ indexed' = (indexed /\ TipIndexHas(tipIndex, ts))
    /\ clean' = (clean /\ ioOk /\ Defined(ts))
    /\ pre' = NoPre
    /\ lastLoad' = NoLoad
    /\ n' = IF observe THEN [n EXCEPT !.setHead = @ + 1] ELSE n
    /\ lastSet' = IF lastSet.on
                  THEN [on |-> TRUE, made |-> TRUE, ts |-> ts, ioOk |-> ioOk,
                        err |-> ~ioOk \/ ~Defined(ts), logged |-> ~Defined(ts),
                        subs |-> subs,
                        was |-> [head |-> head, dsHead |-> dsHead,
                                 sent |-> [s \in Subs |-> recv[s] \o chans[s]]]]
                  ELSE lastSet
    /\ UNCHANGED <<storeVars, genesis, mu, subs, shutdown, recv, early, thrVars>>
    /\ UNCHANGED <<logVars, putOk, loaded>>
    /\ UNCHANGED <<lastPut, atStop, logRun, ixVars, nodeVars>>

\* A SetHead that assigns the head and publishes the event although the
\* write of the head key has failed, and then returns the error.
SetHeadGoesOnAfterError(t, ts, ioOk) ==
    /\ pc[t] = "idle"
    /\ n.setHead < MaxSetHead
    /\ mu.writer = 0 /\ mu.readers = {}
    /\ CanPub(subs, chans, shutdown)
    /\ dsHead' = IF ioOk THEN WriteHead(ts) ELSE dsHead
    /\ head' = ts
    /\ chans' = Pub(subs, chans, shutdown, ts)
    /\ pubbed' = <<ts>>
    /\ indexed' = (indexed /\ TipIndexHas(tipIndex, ts))
    /\ clean' = (clean /\ ioOk)
    /\ pre' = NoPre
    /\ lastLoad' = NoLoad
    /\ n' = IF observe THEN [n EXCEPT !.setHead = @ + 1] ELSE n
    /\ lastSet' = IF lastSet.on
                  THEN [on |-> TRUE, made |-> TRUE, ts |-> ts, ioOk |-> ioOk,
                        err |-> ~ioOk, logged |-> ~Defined(ts), subs |-> subs,
                        was |-> [head |-> head, dsHead |-> dsHead,
                                 sent |-> [s \in Subs |-> recv[s] \o chans[s]]]]
                  ELSE lastSet
    /\ UNCHANGED <<storeVars, genesis, mu, subs, shutdown, recv, early, thrVars>>
    /\ UNCHANGED <<logVars, putOk, loaded>>
    /\ UNCHANGED <<lastPut, atStop, logRun, ixVars, nodeVars>>

\* SetHead, called by thread t with no other caller running.
SetHead(t, ts, ioOk) ==
    /\ pc[t] = "idle"
    /\ n.setHead < MaxSetHead
    /\ SetHeadRun(ts, ioOk)
    /\ indexed' = (indexed /\ TipIndexHas(tipIndex, ts))
    /\ clean' = (clean /\ ioOk)
    /\ pre' = NoPre
    /\ lastLoad' = NoLoad
    /\ n' = IF observe THEN [n EXCEPT !.setHead = @ + 1] ELSE n
    /\ lastSet' = IF lastSet.on
                  THEN [on |-> TRUE, made |-> TRUE, ts |-> ts, ioOk |-> ioOk,
                        err |-> ~ioOk, logged |-> ~Defined(ts), subs |-> subs,
                        was |-> [head |-> head, dsHead |-> dsHead,
                                 sent |-> [s \in Subs |-> recv[s] \o chans[s]]]]
                  ELSE lastSet
    /\ UNCHANGED <<storeVars, genesis, mu, subs, shutdown, recv, early, thrVars>>
    /\ UNCHANGED <<logVars, putOk, loaded>>
    /\ UNCHANGED <<lastPut, atStop, logRun, ixVars, nodeVars>>

\* Load, called by thread t with no other caller running.  inj: the
\* datastore failure the traversal meets; ioOk: the final SetHead's write
\* of the head key succeeds.
Load(t, inj, ioOk) ==
    /\ pc[t] = "idle"
    /\ n.setHead < MaxSetHead
    /\ LET r == LoadOp(bsPriv, tipIndex, dsState, dsHead, genesis, inj)
       IN  /\ bsPriv' = r.s.bsPriv
           /\ tipIndex' = r.s.tipIndex
           /\ dsState' = r.s.dsState
           /\ IF r.why = "ok"
              THEN SetHeadRun(r.headTs, ioOk)
              ELSE ioOk /\ UNCHANGED <<dsHead, head, chans>> /\ pubbed' = <<>>
           /\ lastLoad' = [why |-> IF r.why # "ok" THEN r.why
                                   ELSE IF ioOk THEN "done" ELSE "sethead",
                           headTs |-> r.headTs, genesii |-> r.genesii,
                           io |-> inj # <<0, 0>>, pre |-> pre, head |-> head,
                           dsHead |-> dsHead, genesis |-> genesis,
                           missing |-> ChainMissing(bsPriv, dsState, dsHead)]
    /\ loaded' = TRUE
    /\ putOk' = {}
    /\ clean' = FALSE
    /\ pre' = NoPre
    /\ n' = IF observe THEN [n EXCEPT !.setHead = @ + 1] ELSE n
    /\ UNCHANGED <<genesis, mu, subs, shutdown, recv, early, thrVars, logVars, indexed>>
    /\ UNCHANGED <<probeVars, ixVars, nodeVars>>

\* The process restarts: NewStore over the same datastore with the same
\* genesis CID.
NewStore ==
    /\ \A t \in Threads : pc[t] = "idle"
    /\ tipIndex' = NewTipIndex
    /\ head' = UndefTipSet
    /\ mu' = [writer |-> 0, readers |-> {}]
    /\ subs' = {}
    /\ chans' = [s \in Subs |-> <<>>]
    /\ shutdown' = FALSE
    /\ recv' = [s \in Subs |-> <<>>]
    /\ early' = [s \in Subs |-> FALSE]
    /\ got' = [t \in Threads |-> {}]
    /\ setLog' = <<>>
    /\ callers' = {}
    /\ track' = [t \in Threads |-> NoTrack]
    /\ doneIdx' = 0
    /\ putOk' = {}
    /\ loaded' = FALSE
    /\ clean' = FALSE
    /\ indexed' = TRUE
    /\ lastLoad' = NoLoad
    /\ pubbed' = <<>>
    /\ pre' = LET valid == /\ clean
                           /\ Defined(head)
                           /\ Chain(head) \subseteq DOMAIN tipIndex.byKey
                           /\ Terminus(head) = {genesis}
              IN  IF valid
                  THEN [head |-> head, valid |-> TRUE, made |-> TRUE,
                        byKey |-> [k \in Chain(head) |-> tipIndex.byKey[k]]]
                  ELSE [NoPre EXCEPT !.made = TRUE]
    /\ n' = n
    /\ UNCHANGED <<bsPriv, dsState, dsHead, genesis, pc, arg, observe>>
    /\ UNCHANGED <<probeVars, ixVars, nodeVars>>

\* HeadEvents().Sub(NewHeadTopic) by subscriber s.
Subscribe(s) ==
    /\ s \notin subs
    /\ ~shutdown
    /\ chans[s] = <<>> /\ recv[s] = <<>>
    /\ subs' = subs \cup {s}
    /\ early' = [early EXCEPT ![s] = observe /\ callers = {}]
    /\ UNCHANGED <<storeVars, headVars, chans, shutdown, recv, thrVars, logVars, histVars>>
    /\ UNCHANGED <<probeVars, ixVars, nodeVars>>

\* Subscriber s receives the next event of its channel.
Receive(s) ==
    /\ chans[s] # <<>>
    /\ recv' = [recv EXCEPT ![s] = Append(@, Head(chans[s]))]
    /\ chans' = [chans EXCEPT ![s] = Tail(@)]
    /\ UNCHANGED <<storeVars, headVars, subs, shutdown, early, thrVars, logVars, histVars>>
    /\ UNCHANGED <<probeVars, ixVars, nodeVars>>

\* Stop: headEvents.Shutdown closes every subscriber's channel.
Stop ==
    /\ ~shutdown
    /\ shutdown' = TRUE
    /\ subs' = {}
    /\ atStop' = [made |-> TRUE, sent |-> [s \in Subs |-> recv[s] \o chans[s]],
                  calls |-> Len(setLog)]
    /\ UNCHANGED <<storeVars, headVars, chans, recv, early, thrVars, logVars, histVars>>
    /\ UNCHANGED <<lastPut, lastSet, logRun, ixVars, nodeVars>>

\* ------------------------------------------------------ specifications
\* The tipsets SetHead is called with: any tipset, or the undefined one.
SetHeadArgs == TipSets \cup {UndefTipSet}

\* One caller.
Sequential == {1}

SetHeadSteps(t) ==
    \/ \E ts \in SetHeadArgs : SetHeadCall(t, ts)
    \/ SetHeadLock(t)
    \/ SetHeadWriteOk(t)
    \/ SetHeadWriteFail(t)
    \/ SetHeadAssign(t)
    \/ SetHeadPub(t)

GetHeadSteps(t) ==
    \/ GetHeadCall(t)
    \/ GetHeadRLock(t)
    \/ GetHeadRead(t)
    \/ GetHeadDone(t)

\* One caller putting tipsets, setting the head, restarting and loading.
Next ==
    \/ \E t \in Sequential, ts \in TipSets, root \in StateRoots :
           \E fail \in 0..(Len_(ts) + 1) : PutTipSetAndState(t, ts, root, fail)
    \/ \E t \in Sequential, ts \in SetHeadArgs, ioOk \in BOOLEAN : SetHead(t, ts, ioOk)
    \/ \E t \in Sequential, inj \in Injections, ioOk \in BOOLEAN : Load(t, inj, ioOk)
    \/ NewStore

Spec == Init /\ [][Next]_vars

\* One caller putting tipsets, each call recorded with the store it found.
InitPut ==
    /\ InitStore
    /\ observe = FALSE
    /\ lastPut = [NoPut EXCEPT !.on = TRUE]
    /\ lastSet = NoSet
    /\ atStop = NoStop
    /\ logRun = NoLogRun

NextPut ==
    \E t \in Sequential, ts \in TipSets, root \in StateRoots :
        \E fail \in 0..(Len_(ts) + 1) : PutTipSetAndState(t, ts, root, fail)

SpecPut == InitPut /\ [][NextPut]_vars

\* The tipset of the SetHead call that follows k calls.
CallTipSet(k) == IF k % 2 = 0 THEN {1} ELSE {2}

\* SetHead is called once more, the subscriber present or the broadcaster
\* shut down.
SetHeadCallUndrained(t) ==
    /\ subs = Subs \/ shutdown
    /\ n.setHead < MaxCalls
    /\ SetHeadEnter(t, CallTipSet(n.setHead))

\* The subscriber consumes an event only from a full channel.
ReceiveWhenFull(s) ==
    /\ Len(chans[s]) = Backlog
    /\ Receive(s)

\* One caller of SetHead, a subscriber that does not drain its channel, and
\* Stop.
InitBacklog == InitStore /\ observe = TRUE /\ NoProbes

NextBacklog ==
    \/ \E t \in Sequential :
           \/ SetHeadCallUndrained(t)
           \/ SetHeadLock(t)
           \/ SetHeadWriteOk(t)
           \/ SetHeadAssign(t)
           \/ SetHeadPub(t)
    \/ \E s \in Subs : Subscribe(s)
    \/ \E s \in Subs : ReceiveWhenFull(s)
    \/ Stop

SpecBacklog == InitBacklog /\ [][NextBacklog]_vars

BlockHeightSteps(t) ==
    \/ BlockHeightCall(t)
    \/ BlockHeightRLock(t)
    \/ BlockHeightRead(t)

GenesisCidSteps(t) ==
    \/ GenesisCidCall(t)
    \/ GenesisCidLock(t)
    \/ GenesisCidRead(t)

\* Concurrent callers of every operation that takes store.mu.
NextLock ==
    \/ \E t \in Threads : SetHeadSteps(t)
    \/ \E t \in Threads : GetHeadSteps(t)
    \/ \E t \in Threads : BlockHeightSteps(t)
    \/ \E t \in Threads : GenesisCidSteps(t)

SpecLock == Init /\ [][NextLock]_vars

\* Load's modulus for progress messages: startHeight / 10 in unsigned
\* integers.
LogStatusEvery(startHeight) == startHeight \div 10

\* Whether the traversal loop logs the tipset at this height.
LogsTipSet(logStatusEvery, height) ==
    logStatusEvery # 0 /\ height % logStatusEvery = 0

\* One pass of Load's traversal loop over a chain with one tipset at each
\* height: the tipset at logRun.height is visited, then its parent.
LoadVisit ==
    /\ ~logRun.complete
    /\ logRun' = [logRun EXCEPT
           !.logged = IF LogsTipSet(LogStatusEvery(logRun.startHeight), logRun.height)
                      THEN @ + 1 ELSE @,
           !.height = IF @ = 0 THEN 0 ELSE @ - 1,
           !.complete = (logRun.height = 0)]
    /\ UNCHANGED <<storeVars, headVars, pubVars, thrVars, logVars, histVars>>
    /\ UNCHANGED <<lastPut, lastSet, atStop, ixVars, nodeVars>>

\* Load's traversal loop from a head tipset of each height up to MaxHeight.
InitLog ==
    /\ InitStore
    /\ observe = FALSE
    /\ lastPut = NoPut
    /\ lastSet = NoSet
    /\ atStop = NoStop
    /\ logRun \in {[startHeight |-> H, height |-> H, logged |-> 0, complete |-> FALSE] :
                      H \in 0..MaxHeight}

NextLog == LoadVisit

SpecLog == InitLog /\ [][NextLog]_vars

\* One caller of SetHead and GetHead, each SetHead recorded, and the head
\* subscribers.
InitHead ==
    /\ InitStore
    /\ observe = TRUE
    /\ lastPut = NoPut
    /\ lastSet = [NoSet EXCEPT !.on = TRUE]
    /\ atStop = NoStop
    /\ logRun = NoLogRun

NextHead ==
    \/ \E t \in Sequential, ts \in SetHeadArgs, ioOk \in BOOLEAN : SetHead(t, ts, ioOk)
    \/ \E t \in Sequential : GetHeadSteps(t)
    \/ \E s \in Subs : Subscribe(s)
    \/ \E s \in Subs : Receive(s)

SpecHead == InitHead /\ [][NextHead]_vars

\* PutTipSetAndState is called by one of several concurrent callers.
PutCall(t, ts, root) ==
    /\ pc[t] = "idle"
    /\ n.put < MaxPut
    /\ pc' = [pc EXCEPT ![t] = "pt_blocks"]
    /\ arg' = [arg EXCEPT ![t] = ts]
    /\ putRoot' = [putRoot EXCEPT ![t] = root]
    /\ pre' = NoPre
    /\ lastLoad' = NoLoad
    /\ pubbed' = <<>>
    /\ n' = [n EXCEPT !.put = @ + 1]
    /\ UNCHANGED <<storeVars, headVars, pubVars, got, logVars>>
    /\ UNCHANGED <<putOk, loaded, clean, indexed, probeVars, tipIndexMu, nodeVars>>

\* PutTipSetAndState: putBlk has written every block.
PutBlocks(t) ==
    /\ pc[t] = "pt_blocks"
    /\ bsPriv' = bsPriv \cup arg[t]
    /\ pc' = [pc EXCEPT ![t] = "pt_ilock"]
    /\ UNCHANGED <<dsState, tipIndex, headVars, pubVars, arg, got>>
    /\ UNCHANGED <<logVars, histVars, probeVars, ixVars, nodeVars>>

\* PutTipSetAndState: the putBlk of the i-th block fails and the call
\* returns the error.
PutBlocksFail(t, i) ==
    /\ pc[t] = "pt_blocks"
    /\ i \in 1..Len_(arg[t])
    /\ bsPriv' = bsPriv \cup FirstBlocks(arg[t], i - 1)
    /\ pc' = [pc EXCEPT ![t] = "idle"]
    /\ arg' = [arg EXCEPT ![t] = UndefTipSet]
    /\ putRoot' = [putRoot EXCEPT ![t] = Undef]
    /\ clean' = FALSE
    /\ UNCHANGED <<dsState, tipIndex, headVars, pubVars, got, logVars>>
    /\ UNCHANGED <<putOk, loaded, indexed, pre, lastLoad, pubbed, n>>
    /\ UNCHANGED <<probeVars, tipIndexMu, nodeVars>>

\* tipIndex.Put: the index's lock is taken for writing.
PutIndexLock(t) ==
    /\ pc[t] = "pt_ilock"
    /\ tipIndexMu.writer = 0 /\ tipIndexMu.readers = {}
    /\ tipIndexMu' = [tipIndexMu EXCEPT !.writer = t]
    /\ pc' = [pc EXCEPT ![t] = "pt_insert"]
    /\ UNCHANGED <<storeVars, headVars, pubVars, arg, got>>
    /\ UNCHANGED <<logVars, histVars, probeVars, putRoot, nodeVars>>

\* tipIndex.Put: the pair is inserted or refused and the index's lock given
\* up; PutTipSetAndState returns the error of a refusal.
PutIndexInsert(t) ==
    /\ pc[t] = "pt_insert"
    /\ LET p == TipIndexPut(tipIndex, arg[t], putRoot[t])
       IN  /\ tipIndex' = p.ti
           /\ pc' = [pc EXCEPT ![t] = IF p.ok THEN "pt_record" ELSE "idle"]
           /\ arg' = IF p.ok THEN arg ELSE [arg EXCEPT ![t] = UndefTipSet]
           /\ putRoot' = IF p.ok THEN putRoot ELSE [putRoot EXCEPT ![t] = Undef]
           /\ clean' = (clean /\ p.ok)
    /\ tipIndexMu' = [tipIndexMu EXCEPT !.writer = 0]
    /\ UNCHANGED <<bsPriv, dsState, headVars, pubVars, got, logVars>>
    /\ UNCHANGED <<putOk, loaded, indexed, pre, lastLoad, pubbed, n>>
    /\ UNCHANGED <<probeVars, nodeVars>>

\* PutTipSetAndState: writeTipSetAndState, then the call returns.
PutRecord(t, ioFail) ==
    /\ pc[t] = "pt_record"
    /\ LET w == WriteTipSetAndState(dsState, arg[t], putRoot[t], ioFail)
       IN  /\ dsState' = w.ds
           /\ putOk' = IF w.err \/ loaded THEN putOk
                       ELSE putOk \cup {<<arg[t], putRoot[t]>>}
           /\ clean' = (clean /\ ~w.err)
    /\ pc' = [pc EXCEPT ![t] = "idle"]
    /\ arg' = [arg EXCEPT ![t] = UndefTipSet]
    /\ putRoot' = [putRoot EXCEPT ![t] = Undef]
    /\ UNCHANGED <<bsPriv, tipIndex, headVars, pubVars, got, logVars>>
    /\ UNCHANGED <<loaded, indexed, pre, lastLoad, pubbed, n>>
    /\ UNCHANGED <<probeVars, tipIndexMu, nodeVars>>

\* GetTipSetStateRoot (or another lookup of the tipset index) is called.
IndexGetCall(t, ts) ==
    /\ pc[t] = "idle"
    /\ pc' = [pc EXCEPT ![t] = "ix_rlock"]
    /\ arg' = [arg EXCEPT ![t] = ts]
    /\ UNCHANGED <<storeVars, headVars, pubVars, got>>
    /\ UNCHANGED <<logVars, histVars, probeVars, ixVars, nodeVars>>

\* The lookup takes the index's lock for reading.
IndexRLock(t) ==
    /\ pc[t] = "ix_rlock"
    /\ tipIndexMu.writer = 0
    /\ tipIndexMu' = [tipIndexMu EXCEPT !.readers = @ \cup {t}]
    /\ pc' = [pc EXCEPT ![t] = "ix_read"]
    /\ UNCHANGED <<storeVars, headVars, pubVars, arg, got>>
    /\ UNCHANGED <<logVars, histVars, probeVars, putRoot, nodeVars>>

\* The lookup reads the index, gives up the lock and returns.
IndexRead(t) ==
    /\ pc[t] = "ix_read"
    /\ tipIndexMu' = [tipIndexMu EXCEPT !.readers = @ \ {t}]
    /\ pc' = [pc EXCEPT ![t] = "idle"]
    /\ arg' = [arg EXCEPT ![t] = UndefTipSet]
    /\ UNCHANGED <<storeVars, headVars, pubVars, got>>
    /\ UNCHANGED <<logVars, histVars, probeVars, putRoot, nodeVars>>

\* The tipsets the concurrent callers of the two locks name.
LockTipSets == {{1}, {3}}

PutSteps(t) ==
    \/ \E ts \in LockTipSets, root \in Roots : PutCall(t, ts, root)
    \/ PutBlocks(t)
    \/ \E i \in 1..2 : PutBlocksFail(t, i)
    \/ PutIndexLock(t)
    \/ PutIndexInsert(t)
    \/ \E ioFail \in BOOLEAN : PutRecord(t, ioFail)

IndexGetSteps(t) ==
    \/ \E ts \in LockTipSets : IndexGetCall(t, ts)
    \/ IndexRLock(t)
    \/ IndexRead(t)

\* A step of thread t other than the call of an operation.
StepInside(t) ==
    \/ PutBlocks(t) \/ PutIndexLock(t) \/ PutIndexInsert(t)
    \/ \E ioFail \in BOOLEAN : PutRecord(t, ioFail)
    \/ IndexRLock(t) \/ IndexRead(t)
    \/ SetHeadLock(t) \/ SetHeadWriteOk(t) \/ SetHeadAssign(t) \/ SetHeadPub(t)
    \/ GetHeadRLock(t) \/ GetHeadRead(t) \/ GetHeadDone(t)
    \/ BlockHeightRLock(t) \/ BlockHeightRead(t)
    \/ GenesisCidLock(t) \/ GenesisCidRead(t)

\* Concurrent callers of the operations that take store.mu and of those that
\* take the lock of the tipset index.
NextTwoLocks ==
    \/ \E t \in Threads : PutSteps(t)
    \/ \E t \in Threads : IndexGetSteps(t)
    \/ \E t \in Threads :
           \/ \E ts \in LockTipSets : SetHeadCall(t, ts)
           \/ SetHeadLock(t)
           \/ SetHeadWriteOk(t)
           \/ SetHeadWriteFail(t)
           \/ SetHeadAssign(t)
           \/ SetHeadPub(t)
    \/ \E t \in Threads : GetHeadSteps(t)
    \/ \E t \in Threads : BlockHeightSteps(t)
    \/ \E t \in Threads : GenesisCidSteps(t)

SpecTwoLocks == Init /\ [][NextTwoLocks]_vars

\* The tipsets that caller names: the genesis, another parentless block and
\* a child of the genesis.
FrameTipSets == {{1}, {2}, {3}}

\* One caller putting tipsets, setting the head, restarting, loading and
\* asking for the genesis CID.
NextFrame ==
    \/ \E t \in Sequential, ts \in FrameTipSets, root \in StateRoots :
           \E fail \in 0..(Len_(ts) + 1) : PutTipSetAndState(t, ts, root, fail)
    \/ \E t \in Sequential, ts \in FrameTipSets \cup {UndefTipSet}, ioOk \in BOOLEAN :
           SetHead(t, ts, ioOk)
    \/ \E t \in Sequential, inj \in Injections, ioOk \in BOOLEAN : Load(t, inj, ioOk)
    \/ NewStore
    \/ \E t \in Sequential : GenesisCidSteps(t)

SpecFrame == Init /\ [][NextFrame]_vars

\* What AddNewBlock leaves when it returns: err is the error returned.
AddNewBlockReturn(nd, err) ==
    [nd EXCEPT !.pc = "idle", !.b = Undef, !.did = <<>>, !.pubBefore = <<>>,
               !.last = [made |-> TRUE, b |-> nd.b, did |-> nd.did, err |-> err,
                         pubBefore |-> nd.pubBefore]]

\* AddNewBlock is called with the mined block b.
AddNewBlockCall(b) ==
    /\ node.pc = "idle"
    /\ node.calls < MaxAdd
    /\ node' = [node EXCEPT !.pc = "put", !.b = b, !.did = <<>>,
                            !.pubBefore = node.published, !.calls = @ + 1]
    /\ UNCHANGED <<storeVars, headVars, pubVars, thrVars, logVars, histVars>>
    /\ UNCHANGED <<probeVars, ixVars>>

\* AddNewBlock: node.cborStore.Put; its error is returned.
AddNewBlockPut(ok) ==
    /\ node.pc = "put"
    /\ node' = IF ok
               THEN [node EXCEPT !.pc = "sync", !.did = Append(@, "put"),
                                 !.cborStore = @ \cup {node.b}]
               ELSE AddNewBlockReturn(node, TRUE)
    /\ UNCHANGED <<storeVars, headVars, pubVars, thrVars, logVars, histVars>>
    /\ UNCHANGED <<probeVars, ixVars>>

\* An AddNewBlock that goes on to publish when HandleNewBlocks has failed.
AddNewBlockSyncIgnoresError(ok) ==
    /\ node.pc = "sync"
    /\ node' = IF ok
               THEN [node EXCEPT !.pc = "publish", !.did = Append(@, "sync"),
                                 !.synced = @ \cup {node.b}]
               ELSE [node EXCEPT !.pc = "publish"]
    /\ UNCHANGED <<storeVars, headVars, pubVars, thrVars, logVars, histVars>>
    /\ UNCHANGED <<probeVars, ixVars>>

\* AddNewBlock: node.Syncer.HandleNewBlocks of the block's CID; its error is
\* returned.
AddNewBlockSync(ok) ==
    /\ node.pc = "sync"
    /\ node' = IF ok
               THEN [node EXCEPT !.pc = "publish", !.did = Append(@, "sync"),
                                 !.synced = @ \cup {node.b}]
               ELSE AddNewBlockReturn(node, TRUE)
    /\ UNCHANGED <<storeVars, headVars, pubVars, thrVars, logVars, histVars>>
    /\ UNCHANGED <<probeVars, ixVars>>

\* AddNewBlock: PubSubPublish on BlockTopic; its result is returned.
AddNewBlockPublish(ok) ==
    /\ node.pc = "publish"
    /\ node' = IF ok
               THEN AddNewBlockReturn(
                        [node EXCEPT !.did = Append(@, "publish"),
                                     !.published = Append(@, node.b)], FALSE)
               ELSE AddNewBlockReturn(node, TRUE)
    /\ UNCHANGED <<storeVars, headVars, pubVars, thrVars, logVars, histVars>>
    /\ UNCHANGED <<probeVars, ixVars>>

\* The node adds mined blocks, one call at a time; each of the three steps
\* can fail.
NextNode ==
    \/ \E b \in Cids : AddNewBlockCall(b)
    \/ \E ok \in BOOLEAN : AddNewBlockPut(ok)
    \/ \E ok \in BOOLEAN : AddNewBlockSync(ok)
    \/ \E ok \in BOOLEAN : AddNewBlockPublish(ok)

SpecNode == Init /\ [][NextNode]_vars

\* Concurrent callers of SetHead and GetHead, and the head subscribers.
NextConc ==
    \/ \E t \in Threads : SetHeadSteps(t)
    \/ \E t \in Threads : GetHeadSteps(t)
    \/ \E s \in Subs : Subscribe(s)
    \/ \E s \in Subs : Receive(s)

SpecConc == InitConc /\ [][NextConc]_vars

\* ------------------------------------------------------------- claims
IsPrefix(a, b) == Len(a) <= Len(b) /\ SubSeq(b, 1, Len(a)) = a

Last(q) == q[Len(q)]

\* The events subscriber s has been sent: those received, then those queued.
Sent(s) == recv[s] \o chans[s]

\* No SetHead is between its call and its return.
NoSetHeadRunning ==
    \A t \in Threads : pc[t] \notin {"sh_lock", "sh_write", "sh_assign", "sh_pub"}

\* C1: on a store on which Load has not run, every <<tipset, root>> for which
\* PutTipSetAndState returned nil is what GetTipSet and GetTipSetStateRoot
\* return for the tipset's key, at any later time.
C1_PutThenGet ==
    ~loaded =>
        \A p \in putOk :
            /\ TipIndexHas(tipIndex, p[1])
            /\ TipIndexGetTipSetStateRoot(tipIndex, p[1]) = p[2]

\* C1 witness: one pair was put with success and is in the index, next to an
\* index entry that a failed PutTipSetAndState left.
C1_Witness ==
    /\ ~loaded
    /\ putOk # {}
    /\ \E ts \in DOMAIN tipIndex.byKey : <<ts, tipIndex.byKey[ts]>> \notin putOk

\* C2: with a single caller of SetHead, every subscriber subscribed before the
\* first call has been sent, at any moment, a prefix of the tipsets the
\* successful calls set, in call order, and all of them once no call runs.
C2_EventsInCallOrder ==
    Cardinality(callers) <= 1 =>
        \A s \in subs :
            early[s] =>
                /\ IsPrefix(Sent(s), setLog)
                /\ NoSetHeadRunning => Sent(s) = setLog

\* C2 witness: a subscriber has received two different heads from one caller.
C2_Witness ==
    /\ Cardinality(callers) = 1
    /\ \E s \in subs :
           /\ early[s]
           /\ Len(recv[s]) = 2
           /\ recv[s][1] # recv[s][2]

\* C3: with concurrent callers of SetHead, a subscriber is sent the events in
\* the order in which the head was updated, and once every call has returned
\* and every event is delivered, the last event it received carries the head
\* that GetHead returns and that is stored under the head key.
C3_EventsInUpdateOrder ==
    \A s \in subs :
        early[s] =>
            /\ IsPrefix(Sent(s), setLog)
            /\ (NoSetHeadRunning /\ chans[s] = <<>> /\ recv[s] # <<>>) =>
                   /\ GetHeadOf(Last(recv[s])) = GetHeadOf(head)
                   /\ dsHead = WriteHead(Last(recv[s]))

\* C4, as stated: a GetHead that starts after a SetHead returned nil returns
\* the key of that call's tipset or of a tipset that became the head later,
\* and never the empty key.
C4_GetHeadAfterSetHead ==
    \A t \in Threads :
        (pc[t] = "gh_done" /\ track[t].from > 0) =>
            /\ track[t].at >= track[t].from
            /\ got[t] = GetHeadOf(setLog[track[t].at])
            /\ got[t] # {}

\* C4, amended: a GetHead that starts after a SetHead returned nil returns the
\* key of that call's tipset or of a tipset that became the head later; it
\* returns the empty key only when that tipset is the undefined one.
C4_GetHeadAfterSetHeadAmended ==
    \A t \in Threads :
        (pc[t] = "gh_done" /\ track[t].from > 0) =>
            /\ track[t].at >= track[t].from
            /\ got[t] = GetHeadOf(setLog[track[t].at])

\* C4 witness: a GetHead that started after one SetHead returned has read the
\* head a later SetHead set.
C4_Witness ==
    \E t \in Threads :
        /\ pc[t] = "gh_done"
        /\ track[t].from > 0
        /\ track[t].at > track[t].from
        /\ got[t] # {}

\* C5: a new Store over the datastore that successful PutTipSetAndState and
\* SetHead calls left, with the head and all its ancestors back to genesis
\* put, loads with success when the datastore does not fail; GetHead is then
\* the head of before the restart, and the index holds every ancestor of the
\* head, the head included, with the state root it had before the restart.
C5_LoadReconstructs ==
    (lastLoad.pre.valid /\ ~lastLoad.io /\ lastLoad.why # "sethead") =>
        /\ lastLoad.why = "done"
        /\ GetHeadOf(head) = GetHeadOf(lastLoad.pre.head)
        /\ \A T \in Chain(lastLoad.pre.head) :
               /\ TipIndexHas(tipIndex, T)
               /\ TipIndexGetTipSetStateRoot(tipIndex, T) = lastLoad.pre.byKey[T]

\* C5 witness: a Load after a restart has rebuilt a head with a parent.
C5_Witness ==
    /\ lastLoad.pre.valid
    /\ lastLoad.why = "done"
    /\ Cardinality(Chain(head)) = 2
    /\ DOMAIN tipIndex.byKey = Chain(lastLoad.pre.head)

\* C6: a Load that reached its SetHead ended its traversal at a tipset of
\* exactly one block whose CID is the genesis CID given at construction; a
\* Load that failed before left the in-memory head as it was and published
\* no event.
C6_LoadOnlyFromGenesis ==
    /\ lastLoad.why \in {"done", "sethead"} =>
           /\ Len_(lastLoad.genesii) = 1
           /\ At(lastLoad.genesii, 1) = genesis
           /\ lastLoad.genesii = Terminus(lastLoad.headTs)
    /\ lastLoad.why \in {"nohead", "headblocks", "traversal", "genesis"} =>
           /\ head = lastLoad.head
           /\ pubbed = <<>>

\* C6 witness: a Load failed on a chain that ends at one block that is not
\* the genesis block, below a head with a parent.
C6_Witness ==
    /\ lastLoad.why = "genesis"
    /\ Len_(lastLoad.genesii) = 1
    /\ At(lastLoad.genesii, 1) # genesis
    /\ lastLoad.genesii # lastLoad.headTs
    /\ pubbed = <<>>

\* C7, as stated: after a Load that failed because the persisted chain ends
\* at a parentless tipset that is not the configured genesis, the in-memory
\* tipset index is empty.
C7_IndexEmptyAfterMismatch ==
    (lastLoad.why = "genesis" /\ TsParents(lastLoad.genesii) = {}) =>
        DOMAIN tipIndex.byKey = {}

\* C7, amended: after a Load that failed because the persisted chain ends at
\* a parentless tipset that is not the configured genesis, the in-memory
\* tipset index holds exactly the tipsets the failed traversal visited, each
\* with its persisted state root, and the in-memory head is unchanged.
C7_IndexHoldsVisitedAfterMismatch ==
    (lastLoad.why = "genesis" /\ TsParents(lastLoad.genesii) = {}) =>
        /\ DOMAIN tipIndex.byKey = Chain(lastLoad.headTs)
        /\ \A T \in Chain(lastLoad.headTs) :
               /\ MakeKey(T) \in DOMAIN dsState
               /\ tipIndex.byKey[T] = dsState[MakeKey(T)]
        /\ head = lastLoad.head

\* C7 witness: a Load failed with a genesis mismatch after it visited two
\* tipsets.
C7_Witness ==
    /\ lastLoad.why = "genesis"
    /\ TsParents(lastLoad.genesii) = {}
    /\ Cardinality(Chain(lastLoad.headTs)) = 2
    /\ TipIndexHas(tipIndex, lastLoad.headTs)

\* C8: every tipset in the tipset index has a defined state root and a state
\* record in the datastore, under the key made of its tipset key and height,
\* that holds the same root.
C8_IndexedHasPersistedRoot ==
    \A T \in DOMAIN tipIndex.byKey :
        /\ tipIndex.byKey[T] # Undef
        /\ MakeKey(T) \in DOMAIN dsState
        /\ dsState[MakeKey(T)] = tipIndex.byKey[T]

\* C9: HasBlock is true for every member block of every tipset in the tipset
\* index.
C9_IndexedHasBlocks ==
    \A T \in DOMAIN tipIndex.byKey : \A c \in T : HasBlock(bsPriv, c)

\* C9 witness: one tipset is in the index, and of another tipset, not in the
\* index, only a part of the blocks is in the block store.
C9_Witness ==
    /\ Cardinality(DOMAIN tipIndex.byKey) = 1
    /\ \E ts \in TipSets :
           /\ ~TipIndexHas(tipIndex, ts)
           /\ ts \cap bsPriv # {}
           /\ ~(ts \subseteq bsPriv)
           /\ \A T \in DOMAIN tipIndex.byKey : T \cap ts = {}

\* C10, as stated: on a store on which Load has not run, a head that GetHead
\* returns as a non-empty key is in the tipset index.
C10_HeadInIndex ==
    (~loaded /\ Defined(GetHeadOf(head))) =>
        TipIndexHas(tipIndex, GetHeadOf(head))

\* C10, amended: on a store on which Load has not run and on which every
\* SetHead call named a tipset that was in the tipset index at the call, a
\* head that GetHead returns as a non-empty key is in the tipset index.
C10_HeadInIndexWhenPutFirst ==
    (~loaded /\ indexed /\ Defined(GetHeadOf(head))) =>
        TipIndexHas(tipIndex, GetHeadOf(head))

\* C10 witness: the head was put, then set, and another tipset put after it.
C10_Witness ==
    /\ ~loaded
    /\ indexed
    /\ Defined(GetHeadOf(head))
    /\ TipIndexHas(tipIndex, GetHeadOf(head))
    /\ Cardinality(DOMAIN tipIndex.byKey) = 2
    /\ pubbed = <<>>

\* C11: a PutTipSetAndState of a tipset with a state root other than the one
\* an earlier call put with success returns an error; GetTipSetStateRoot
\* still returns the earlier root and the state record still holds it.
C11_ConflictRefused ==
    (/\ lastPut.made
     /\ \E S \in StateRoots : <<lastPut.ts, S>> \in lastPut.okBefore /\ S # lastPut.root) =>
        /\ lastPut.err
        /\ \A S \in StateRoots :
               <<lastPut.ts, S>> \in lastPut.okBefore =>
                   /\ TipIndexHas(tipIndex, lastPut.ts)
                   /\ TipIndexGetTipSetStateRoot(tipIndex, lastPut.ts) = S
                   /\ MakeKey(lastPut.ts) \in DOMAIN dsState
                   /\ dsState[MakeKey(lastPut.ts)] = S

\* C11 witness: a tipset was put with a defined root other than the one it
\* was put with before, with no datastore failure, and the call failed.
C11_Witness ==
    /\ lastPut.made
    /\ lastPut.err
    /\ lastPut.fail = 0
    /\ lastPut.root # Undef
    /\ \E S \in StateRoots : <<lastPut.ts, S>> \in lastPut.okBefore /\ S # lastPut.root

\* C12: a PutTipSetAndState of a pair that an earlier call put with success
\* returns nil when the datastore does not fail, and leaves the block store,
\* both maps of the tipset index and the state records as they were.
C12_PutIdempotent ==
    (/\ lastPut.made
     /\ <<lastPut.ts, lastPut.root>> \in lastPut.okBefore
     /\ lastPut.fail = 0) =>
        /\ ~lastPut.err
        /\ StoreOf(bsPriv, tipIndex, dsState) = lastPut.was

\* C12 witness: a tipset of two blocks was put twice with the same root.
C12_Witness ==
    /\ lastPut.made
    /\ <<lastPut.ts, lastPut.root>> \in lastPut.okBefore
    /\ lastPut.fail = 0
    /\ ~lastPut.err
    /\ Len_(lastPut.ts) = 2
    /\ <<TsParents(lastPut.ts), TsHeight(lastPut.ts)>> \in DOMAIN tipIndex.byParentsHeight

\* The number of times x occurs in the sequence q.
Count(q, x) == Cardinality({i \in 1..Len(q) : q[i] = x})

\* C13: every SetHead call that updated the head publishes exactly one event
\* with its tipset, equal to the one before or not: a subscriber present from
\* the start has been sent each tipset as many times as calls set it, less
\* the calls that have not published yet.
C13_NoDedup ==
    \A s \in subs :
        early[s] =>
            \A ts \in SetHeadArgs :
                Count(Sent(s), ts)
                    + Cardinality({t \in Threads : pc[t] = "sh_pub" /\ arg[t] = ts})
                    = Count(setLog, ts)

\* C13 witness: one caller set the same tipset twice and the subscriber has
\* received two events with it.
C13_Witness ==
    /\ Cardinality(callers) = 1
    /\ NoSetHeadRunning
    /\ \E s \in subs, ts \in TipSets :
           /\ early[s]
           /\ setLog = <<ts, ts>>
           /\ recv[s] = <<ts, ts>>

\* C14: after Stop every subscriber's channel is closed and is sent no
\* further event, a SetHead at its publish step is not blocked, and once the
\* SetHead calls have returned the head key and the in-memory head hold the
\* tipset of the last call and every call has returned nil.
C14_SetHeadAfterStop ==
    atStop.made =>
        /\ shutdown
        /\ subs = {}
        /\ \A s \in Subs : Sent(s) = atStop.sent[s]
        /\ \A t \in Sequential : pc[t] = "sh_pub" => ENABLED SetHeadPub(t)
        /\ (NoSetHeadRunning /\ setLog # <<>>) =>
               /\ head = Last(setLog)
               /\ dsHead = WriteHead(Last(setLog))
               /\ doneIdx = Len(setLog)

\* C14 witness: Stop found the subscriber's channel full, and two SetHead
\* calls made after it have returned and changed the head.
C14_Witness ==
    /\ atStop.made
    /\ \E s \in Subs : Len(chans[s]) = Backlog
    /\ NoSetHeadRunning
    /\ Len(setLog) = atStop.calls + 2
    /\ doneIdx = Len(setLog)
    /\ head = Last(setLog)
    /\ head # setLog[atStop.calls + 1]

\* C18: with one subscriber that was there before the first SetHead call,
\* no event is dropped, and a SetHead can return from its publish step
\* exactly when its call number is at most 128 plus the events the
\* subscriber has consumed: the first 128 calls return, the 129th waits for
\* the subscriber.
C18_Backpressure ==
    \A s \in subs :
        (early[s] /\ ~shutdown) =>
            /\ IsPrefix(Sent(s), setLog)
            /\ Len(Sent(s)) = doneIdx
            /\ doneIdx <= 128 + Len(recv[s])
            /\ \A t \in Sequential :
                   pc[t] = "sh_pub" =>
                       /\ track[t].mine = doneIdx + 1
                       /\ ENABLED SetHeadPub(t) <=> track[t].mine <= 128 + Len(recv[s])

\* C18 witness: 128 calls have returned, the subscriber has consumed nothing
\* and the 129th call waits at its publish step.
C18_Witness ==
    \E s \in subs, t \in Sequential :
        /\ early[s]
        /\ ~shutdown
        /\ recv[s] = <<>>
        /\ doneIdx = 128
        /\ pc[t] = "sh_pub"
        /\ track[t].mine = 129
        /\ ~ENABLED SetHeadPub(t)

\* C15: a Load that found no record under the head key fails, and leaves
\* the tipset index empty, the in-memory head as it was (unset on a new
\* store) and no event published.
C15_LoadWithoutHeadKey ==
    (lastLoad.why # "none" /\ dsHead = <<>>) =>
        /\ lastLoad.why = "nohead"
        /\ DOMAIN tipIndex.byKey = {}
        /\ DOMAIN tipIndex.byParentsHeight = {}
        /\ head = lastLoad.head
        /\ lastLoad.pre.made => ~Defined(head)
        /\ pubbed = <<>>

\* C15 witness: Load failed for want of a head key on a store that tipsets
\* had been put into.
C15_Witness ==
    /\ lastLoad.why = "nohead"
    /\ ~lastLoad.pre.made
    /\ DOMAIN dsState # {}
    /\ DOMAIN tipIndex.byKey = {}

\* C16: a Load that returned nil handed exactly one event to the
\* broadcaster, the loaded head tipset, after the traversal had put every
\* ancestor into the index and ended at the genesis; a Load that returned an
\* error handed none.
C16_LoadPublishesOnce ==
    /\ lastLoad.why = "done" =>
           /\ pubbed = <<lastLoad.headTs>>
           /\ head = lastLoad.headTs
           /\ DOMAIN tipIndex.byKey = Chain(lastLoad.headTs)
           /\ lastLoad.genesii = Terminus(lastLoad.headTs)
    /\ lastLoad.why \notin {"none", "done"} => pubbed = <<>>

\* C16 witness: a Load after a restart visited two tipsets and published
\* the head.
C16_Witness ==
    /\ lastLoad.why = "done"
    /\ lastLoad.pre.made
    /\ pubbed = <<lastLoad.headTs>>
    /\ Cardinality(DOMAIN tipIndex.byKey) = 2

\* C17, as stated: store.mu is held in exclusive mode only inside SetHead,
\* and a thread inside the critical section of GetHead, BlockHeight or
\* GenesisCid holds it in shared mode.
C17_OnlySetHeadExclusive ==
    /\ mu.writer # 0 => pc[mu.writer] \in {"sh_write", "sh_assign"}
    /\ \A t \in Threads :
           pc[t] \in {"gh_read", "bh_read", "gc_read"} => t \in mu.readers

\* C17, amended: store.mu is held in exclusive mode inside SetHead and
\* inside GenesisCid, and in shared mode inside GetHead and BlockHeight; a
\* GetHead or BlockHeight waiting for the lock can enter whenever no SetHead
\* or GenesisCid holds it, and a GenesisCid waiting for it cannot enter
\* while another call of any of the four holds it.
C17_LockModes ==
    /\ mu.writer # 0 => mu.readers = {}
    /\ \A t \in Threads :
           /\ pc[t] \in {"sh_write", "sh_assign", "gc_read"} <=> mu.writer = t
           /\ pc[t] \in {"gh_read", "bh_read"} <=> t \in mu.readers
           /\ pc[t] = "gh_rlock" => (ENABLED GetHeadRLock(t) <=> mu.writer = 0)
           /\ pc[t] = "bh_rlock" => (ENABLED BlockHeightRLock(t) <=> mu.writer = 0)
           /\ pc[t] = "gc_lock" =>
                  (ENABLED GenesisCidLock(t) <=> mu.writer = 0 /\ mu.readers = {})

\* C17 witness: a GenesisCid is inside its critical section and keeps a
\* GetHead out of its own.
C17_Witness ==
    \E t, u \in Threads :
        /\ pc[t] = "gc_read"
        /\ mu.writer = t
        /\ pc[u] = "gh_rlock"
        /\ ~ENABLED GetHeadRLock(u)

\* C19: a SetHead of the undefined tipset whose datastore write succeeds
\* logs an error and returns nil; the head key then holds the empty key, the
\* in-memory head is undefined, GetHead returns the empty key, and one event
\* with the undefined tipset was published to the subscribers of the time.
C19_SetHeadUndefined ==
    (lastSet.made /\ ~Defined(lastSet.ts) /\ lastSet.ioOk) =>
        /\ lastSet.logged
        /\ ~lastSet.err
        /\ dsHead = WriteHead(UndefTipSet)
        /\ head = UndefTipSet
        /\ GetHeadOf(head) = {}
        /\ pubbed = <<UndefTipSet>>
        /\ \A s \in lastSet.subs : Sent(s) # <<>> /\ Last(Sent(s)) = UndefTipSet
        /\ \A t \in Sequential : pc[t] = "gh_done" => got[t] = {}

\* C19 witness: SetHead of the undefined tipset followed a SetHead of a
\* defined one; the subscriber has received both events and GetHead has
\* returned the empty key.
C19_Witness ==
    /\ lastSet.made
    /\ ~Defined(lastSet.ts)
    /\ ~lastSet.err
    /\ \E s \in lastSet.subs :
           /\ Len(recv[s]) = 2
           /\ Defined(recv[s][1])
           /\ recv[s][2] = UndefTipSet
    /\ \E t \in Sequential : pc[t] = "gh_done" /\ got[t] = {}

\* C20: when Load's traversal loop has visited one tipset at each height
\* from the head height H down to 0, it has logged at most 10 progress
\* messages, and none when H is below 10.
C20_AtMostTenMessages ==
    logRun.complete =>
        /\ logRun.logged <= 10
        /\ logRun.startHeight < 10 => logRun.logged = 0

\* What the loop logs instead, for H >= 10: one message for each multiple
\* of H / 10 from 0 to H, which is between 11 and 20 messages.
C20_MessagesLogged ==
    logRun.complete =>
        /\ logRun.startHeight < 10 => logRun.logged = 0
        /\ logRun.startHeight >= 10 =>
               /\ logRun.logged = (logRun.startHeight \div LogStatusEvery(logRun.startHeight)) + 1
               /\ logRun.logged >= 11
               /\ logRun.logged <= 20

\* C20 witness: a completed traversal from height 19 has logged 20 messages.
C20_Witness ==
    /\ logRun.complete
    /\ logRun.startHeight = 19
    /\ logRun.logged = 20

\* C21: a PutTipSetAndState with the undefined state root returns an error,
\* leaves the state records as they were, and a tipset that was not in the
\* tipset index before the call is not in it after the call.
C21_UndefRootLeavesNoTrace ==
    (lastPut.made /\ lastPut.root = Undef) =>
        /\ lastPut.err
        /\ dsState = lastPut.was.dsState
        /\ ~TipIndexHas(lastPut.was.tipIndex, lastPut.ts) =>
               ~TipIndexHas(tipIndex, lastPut.ts)

\* What the call does instead: it returns an error and writes no state
\* record, but when every block was written the tipset is in the tipset
\* index, with the undefined root if it was not indexed before.
C21_UndefRootIndexed ==
    (lastPut.made /\ lastPut.root = Undef) =>
        /\ lastPut.err
        /\ dsState = lastPut.was.dsState
        /\ lastPut.fail \notin 1..Len_(lastPut.ts) =>
               /\ TipIndexHas(tipIndex, lastPut.ts)
               /\ ~TipIndexHas(lastPut.was.tipIndex, lastPut.ts) =>
                      TipIndexGetTipSetStateRoot(tipIndex, lastPut.ts) = Undef

\* C21 witness: a tipset not indexed before was put with the undefined root
\* and no datastore failure; the call failed and the tipset is indexed.
C21_Witness ==
    /\ lastPut.made
    /\ lastPut.root = Undef
    /\ lastPut.fail = 0
    /\ lastPut.err
    /\ ~TipIndexHas(lastPut.was.tipIndex, lastPut.ts)
    /\ TipIndexHas(tipIndex, lastPut.ts)
    /\ MakeKey(lastPut.ts) \notin DOMAIN dsState

\* C22: once a SetHead has assigned the head, in every state in which no
\* SetHead call holds store.mu the key persisted under the head key is the
\* key of the in-memory head, whatever the concurrent SetHead calls.
C22_PersistedHeadIsHead ==
    (mu.writer = 0 /\ setLog # <<>>) => dsHead = WriteHead(head)

\* C22 witness: two concurrent SetHead calls with different tipsets have
\* both left setHeadPersistent and neither has published yet.
C22_Witness ==
    /\ mu.writer = 0
    /\ Len(setLog) = 2
    /\ setLog[1] # setLog[2]
    /\ \A t \in Threads : pc[t] = "sh_pub"
    /\ head = setLog[2]
    /\ dsHead = WriteHead(head)

\* The index in q of the c-th occurrence of x.
OccurrenceIndex(q, x, c) ==
    CHOOSE i \in 1..Len(q) : q[i] = x /\ Count(SubSeq(q, 1, i), x) = c

\* The events published so far were persisted and assigned first: a caller
\* about to publish has made its assignment, and no tipset was sent to a
\* subscriber more often than it was assigned.
PublishedAfterAssigned ==
    /\ \A t \in Threads :
           pc[t] = "sh_pub" =>
               /\ track[t].mine \in 1..Len(setLog)
               /\ setLog[track[t].mine] = arg[t]
    /\ \A s \in Subs : \A k \in 1..Len(Sent(s)) :
           Count(Sent(s), Sent(s)[k]) <= Count(setLog, Sent(s)[k])

\* What a GetHead returned to a caller that had received the k-th event of
\* subscriber s before the call: the head assigned with that event's
\* tipset, or one assigned later.
SeesEventOrLater(t, s, k) ==
    LET ts == recv[s][k]
        c  == Count(SubSeq(recv[s], 1, k), ts)
    IN  /\ Count(setLog, ts) >= c
        /\ track[t].at >= OccurrenceIndex(setLog, ts, c)
        /\ got[t] = GetHeadOf(setLog[track[t].at])

\* C23, as stated: an event is published only after its tipset was persisted
\* and assigned; a GetHead called after an event was received returns the
\* head set with that event's tipset or a later one, and never the empty
\* key when the event's tipset is a defined one.
C23_EventAfterHead ==
    /\ PublishedAfterAssigned
    /\ \A t \in Threads : \A s \in Subs :
           pc[t] = "gh_done" =>
               \A k \in 1..track[t].rcvd[s] :
                   /\ SeesEventOrLater(t, s, k)
                   /\ Defined(recv[s][k]) => got[t] # {}

\* C23, amended: the same, but the GetHead returns the empty key when the
\* head it observes is the undefined tipset.
C23_EventAfterHeadAmended ==
    /\ PublishedAfterAssigned
    /\ \A t \in Threads : \A s \in Subs :
           pc[t] = "gh_done" =>
               \A k \in 1..track[t].rcvd[s] :
                   /\ SeesEventOrLater(t, s, k)
                   /\ got[t] = {} <=> ~Defined(setLog[track[t].at])

\* C23 witness: while two SetHead calls ran, the subscriber received the
\* event of one of them; a GetHead called after that has returned the head
\* the other call set later.
C23_Witness ==
    \E t \in Threads, s \in Subs :
        /\ pc[t] = "gh_done"
        /\ track[t].rcvd[s] = 1
        /\ Len(setLog) = 2
        /\ recv[s][1] = setLog[1]
        /\ setLog[1] # setLog[2]
        /\ track[t].at = 2
        /\ got[t] = setLog[2]
        /\ got[t] # {}

\* C24: a SetHead whose write of the head key fails returns an error; the
\* in-memory head and the head key are what they were before the call and
\* no event was published: every subscriber has been sent what it had been.
C24_FailedWriteKeepsHead ==
    (lastSet.made /\ ~lastSet.ioOk) =>
        /\ lastSet.err
        /\ head = lastSet.was.head
        /\ dsHead = lastSet.was.dsHead
        /\ pubbed = <<>>
        /\ \A s \in Subs : Sent(s) = lastSet.was.sent[s]

\* C24 witness: with a defined head set and its event sent to a subscriber,
\* a SetHead of another defined tipset failed on its write.
C24_Witness ==
    /\ lastSet.made
    /\ ~lastSet.ioOk
    /\ lastSet.err
    /\ Defined(lastSet.ts)
    /\ Defined(lastSet.was.head)
    /\ lastSet.ts # lastSet.was.head
    /\ head = lastSet.was.head
    /\ \E s \in lastSet.subs : Sent(s) = <<lastSet.was.head>>

\* C25: PutTipSetAndState writes the blocks, then updates the tipset index,
\* then writes the state record.  When the write of a block fails it returns
\* an error with the blocks before that one written and the index and the
\* state records as they were; when the index refuses the pair it returns
\* an error with every block written and the state records as they were;
\* when the state record is not written every block is written and the
\* index holds the tipset.
C25_PutStepsInOrder ==
    lastPut.made =>
        LET ts == lastPut.ts
            p  == TipIndexPut(lastPut.was.tipIndex, ts, lastPut.root)
        IN  IF lastPut.fail \in 1..Len_(ts)
            THEN /\ lastPut.err
                 /\ bsPriv = lastPut.was.bsPriv \cup FirstBlocks(ts, lastPut.fail - 1)
                 /\ tipIndex = lastPut.was.tipIndex
                 /\ dsState = lastPut.was.dsState
            ELSE IF ~p.ok
            THEN /\ lastPut.err
                 /\ bsPriv = lastPut.was.bsPriv \cup ts
                 /\ tipIndex = lastPut.was.tipIndex
                 /\ dsState = lastPut.was.dsState
            ELSE /\ bsPriv = lastPut.was.bsPriv \cup ts
                 /\ tipIndex = p.ti
                 /\ IF lastPut.err
                    THEN dsState = lastPut.was.dsState
                    ELSE /\ MakeKey(ts) \in DOMAIN dsState
                         /\ dsState[MakeKey(ts)] = lastPut.root

\* C25 witness: the write of the second block of a tipset new to the store
\* failed after an earlier put had succeeded: the first block is in the
\* block store, the second is not, and the tipset is not in the index.
C25_Witness ==
    /\ lastPut.made
    /\ lastPut.err
    /\ Len_(lastPut.ts) = 2
    /\ lastPut.fail = 2
    /\ lastPut.okBefore # {}
    /\ At(lastPut.ts, 1) \in bsPriv \ lastPut.was.bsPriv
    /\ At(lastPut.ts, 2) \notin bsPriv
    /\ ~TipIndexHas(tipIndex, lastPut.ts)
    /\ MakeKey(lastPut.ts) \notin DOMAIN dsState

\* C26: Load's outcome does not depend on the tipset index it finds, for any
\* store reached and any datastore failure; and a Load that finds a block or
\* a state record of the head's chain missing returns an error from the
\* traversal and leaves the head and the head key as they were, with no
\* event published.
C26_LoadReadsDatastore ==
    /\ \A inj \in Injections :
           LoadOp(bsPriv, tipIndex, dsState, dsHead, genesis, inj)
               = LoadOp(bsPriv, NewTipIndex, dsState, dsHead, genesis, inj)
    /\ (lastLoad.why # "none" /\ lastLoad.missing) =>
           /\ lastLoad.why \in {"headblocks", "traversal", "genesis"}
           /\ head = lastLoad.head
           /\ dsHead = lastLoad.dsHead
           /\ pubbed = <<>>

\* C26 witness: on a store whose head is set, with no datastore failure, a
\* Load has visited the head tipset and stopped at its parent, whose state
\* record is missing.
C26_Witness ==
    /\ lastLoad.why = "traversal"
    /\ lastLoad.missing
    /\ ~lastLoad.io
    /\ Defined(lastLoad.head)
    /\ head = lastLoad.head
    /\ DOMAIN tipIndex.byKey = {lastLoad.headTs}
    /\ HasAllBlocks(bsPriv, TsParents(lastLoad.headTs))
    /\ MakeKey(TsParents(lastLoad.headTs)) \notin DOMAIN dsState

\* C27: after a Load that returned an error, whatever the reason, the
\* in-memory head, the record under the head key and the genesis CID are
\* what the call found, and the call published no event.
C27_FailedLoadKeepsHead ==
    lastLoad.why \notin {"none", "done"} =>
        /\ head = lastLoad.head
        /\ dsHead = lastLoad.dsHead
        /\ genesis = lastLoad.genesis
        /\ pubbed = <<>>
        /\ \A s \in Subs : Sent(s) = <<>>

\* C27 witness: after a restart a Load rebuilt the index up to the genesis
\* and failed in its final SetHead; the head is still undefined and the
\* head key still names the tipset Load started from.
C27_Witness ==
    /\ lastLoad.why = "sethead"
    /\ lastLoad.pre.made
    /\ ~Defined(head)
    /\ Defined(lastLoad.headTs)
    /\ dsHead = WriteHead(lastLoad.headTs)
    /\ TipIndexHas(tipIndex, lastLoad.headTs)
    /\ TipIndexHas(tipIndex, {genesis})

\* Thread t holds store.mu, or waits for it.
HoldsMu(t) == mu.writer = t \/ t \in mu.readers
WaitsMu(t) == pc[t] \in {"sh_lock", "gh_rlock", "bh_rlock", "gc_lock"}

\* Thread t holds the lock of the tipset index, or waits for it.
HoldsIndexMu(t) == tipIndexMu.writer = t \/ t \in tipIndexMu.readers
WaitsIndexMu(t) == pc[t] \in {"pt_ilock", "ix_rlock"}

\* C28: no thread that holds store.mu holds or waits for the lock of the
\* tipset index, and none that holds the index's lock holds or waits for
\* store.mu; a thread that holds either lock can take its next step, and
\* while any operation is under way some thread can take a step: no
\* interleaving of PutTipSetAndState, SetHead, GetHead, BlockHeight,
\* GenesisCid and index lookups ends in a deadlock.
C28_NoLockNesting ==
    /\ \A t \in Threads :
           /\ ~(HoldsMu(t) /\ (HoldsIndexMu(t) \/ WaitsIndexMu(t)))
           /\ ~(HoldsIndexMu(t) /\ (HoldsMu(t) \/ WaitsMu(t)))
           /\ (HoldsMu(t) \/ HoldsIndexMu(t)) => ENABLED StepInside(t)
    /\ (\E t \in Threads : pc[t] # "idle") => ENABLED (\E t \in Threads : StepInside(t))

\* C28 witness: one thread is inside setHeadPersistent with store.mu while
\* another is inside tipIndex.Put with the index's lock.
C28_Witness ==
    \E t, u \in Threads :
        /\ pc[t] = "sh_assign"
        /\ mu.writer = t
        /\ pc[u] = "pt_insert"
        /\ tipIndexMu.writer = u

\* C29: a PutTipSetAndState step, failed or not, leaves the head, the head
\* key and the subscribers' channels as they are and hands no event to Pub;
\* a SetHead step, failed or not, leaves the block store, the tipset index
\* and the state records as they are; no step changes store.genesis, and
\* what GenesisCid reads is the CID given at construction.
C29_FrameEffects ==
    [][/\ (\E t \in Sequential, ts \in FrameTipSets, root \in StateRoots :
               \E fail \in 0..(Len_(ts) + 1) : PutTipSetAndState(t, ts, root, fail))
           => (UNCHANGED <<head, dsHead, chans>> /\ pubbed' = <<>>)
       /\ (\E t \in Sequential, ts \in SetHeadArgs, ioOk \in BOOLEAN : SetHead(t, ts, ioOk))
           => UNCHANGED <<bsPriv, tipIndex, dsState>>
       /\ (\E t \in Sequential : GenesisCidRead(t)) => genesis = 1
       /\ genesis' = genesis]_vars

\* C29 witness: after two PutTipSetAndState calls and a SetHead of a tipset
\* that was never put, the head is set, the tipset index does not hold it,
\* and a GenesisCid call is reading store.genesis.
C29_Witness ==
    /\ n.put = 2
    /\ putOk # {}
    /\ Defined(head)
    /\ dsHead = WriteHead(head)
    /\ ~TipIndexHas(tipIndex, head)
    /\ \E t \in Sequential : pc[t] = "gc_read" /\ mu.writer = t
    /\ genesis = 1

\* C30: AddNewBlock stores, syncs and publishes in that order.  A call about
\* to sync has put its block in node.cborStore, a call about to publish has
\* also had HandleNewBlocks succeed for it, and every block published is
\* stored and synced; a call that returned has published its block, once,
\* exactly when all three steps succeeded, and has returned an error
\* otherwise, with nothing published when the put or the sync failed.
C30_StoreSyncPublish ==
    /\ node.pc = "sync" => (node.did = <<"put">> /\ node.b \in node.cborStore)
    /\ node.pc = "publish" =>
           /\ node.did = <<"put", "sync">>
           /\ node.b \in node.cborStore \cap node.synced
    /\ \A i \in 1..Len(node.published) :
           node.published[i] \in node.cborStore \cap node.synced
    /\ node.pc # "idle" => node.published = node.pubBefore
    /\ (node.pc = "idle" /\ node.last.made) =>
           /\ node.last.did \in {<<>>, <<"put">>, <<"put", "sync">>,
                                 <<"put", "sync", "publish">>}
           /\ node.last.err <=> node.last.did # <<"put", "sync", "publish">>
           /\ node.published =
                  IF node.last.err THEN node.last.pubBefore
                  ELSE Append(node.last.pubBefore, node.last.b)

\* C30 witness: after one block was added and published, the sync of a
\* second block failed: it is stored, not synced and not published.
C30_Witness ==
    /\ node.pc = "idle"
    /\ node.last.made
    /\ node.last.err
    /\ node.last.did = <<"put">>
    /\ Len(node.published) = 1
    /\ node.published[1] # node.last.b
    /\ node.last.b \in node.cborStore \ node.synced

====
